---------------------------- MODULE Spec2Model ----------------------------
(***************************************************************************)
(* Verification model of the venue reconciliation / persistence /         *)
(* embedding / retrieval code of corner_web_scraping.                     *)
(*                                                                         *)
(* Python values are tagged records:                                       *)
(*   [t |-> "none"]                      None                              *)
(*   [t |-> "nan"]                       float('nan')                      *)
(*   [t |-> "int", n |-> i]              a number                          *)
(*   [t |-> "str", s |-> "..."]          a string                          *)
(*   [t |-> "dict", has |-> K, text |-> a, source |-> b]                    *)
(*                                       a dict with the keys K           *)
(*   [t |-> "list", items |-> <<...>>]   a list                            *)
(*   [t |-> "chars", cs |-> <<"$", "1">>] a string kept character by       *)
(*                                       character (one-character strings; *)
(*                                       EN, EM, LDQ, RDQ, LSQ, RSQ stand   *)
(*                                       for U+2013, U+2014, U+201C,        *)
(*                                       U+201D, U+2018, U+2019)            *)
(* A call's outcome is [exc |-> "none", val |-> v] or [exc |-> E] with     *)
(* val NoVal.                                                               *)
(***************************************************************************)
EXTENDS Integers, Sequences, FiniteSets, TLC

VARIABLES
    fn,           \* pure-function harness: the function applied ("idle" before)
    arg,          \* its argument
    ret,          \* its outcome
    numpyStrict,  \* whether the installed numpy raises on bool(empty array)
    impl,         \* process_data: which of the two pipeline files runs
    base_df,      \* the base table: a sequence of venue rows with their source values
    google_df,    \* the Google table: "absent", "rows", "nomatch" (no row of a venue)
                  \* or "nokey" (no google_id column)
    osm_df,       \* the OSM table, likewise (key column corner_place_id)
    website_json, \* the website metadata file: "absent" or "items"
    pc,           \* position of the running batch operation
    idx,          \* loop index into base_df
    processed_venues, \* the output list being built
    stats,        \* the counters of src/assembling_pipeline.py
    output_file,  \* the JSON written, NoFile before
    error_log,    \* names of the venues logged with logger.error
    places,       \* the places table: a set of rows
    review_rows,  \* the reviews table: a set of rows
    embeddings,   \* the embeddings table: a set of rows
    place_seq,    \* the SERIAL sequences of the three tables
    review_seq,
    emb_seq,
    now,          \* the store's clock: CURRENT_TIMESTAMP of the last transaction
    has_pgvector, \* EmbeddingGenerator.has_pgvector
    n_saves,      \* save_to_db calls made
    last_save,    \* the last save_to_db call: its argument, outcome and the tables before
    saved_cids,   \* corner_place_ids of the committed save_to_db calls
    store_ret,    \* what store_embedding returned to a direct call, NoVal before
    fresh,        \* ids of the places whose embedding was stored after their last upsert
    bpc,          \* process_all_places: "idle", "loop", "embedding" or "returned"
    new_places,   \* the rows fetched without an embedding
    updated_places, \* the rows fetched with an outdated embedding
    place_reviews,  \* the review texts fetched, by place id
    processed,    \* the loop counter of process_all_places
    content,      \* the content composed for the venue being embedded
    batch_ret,    \* what process_all_places returned
    run_log,      \* what the current run did, by place id
    last_fetch,   \* the tables and the selection of the last fetch
    n_runs,       \* process_all_places calls made
    gpc,          \* generate_embedding: "idle", "attempt", "sleep" or "returned"
    attempt,      \* its loop variable
    gtext,        \* the text it was called with
    gresult,      \* the pair it returned
    service_calls, \* calls of client.embeddings.create made by the current call
    waits,        \* the wait_time values slept by the current call
    total_tokens, \* EmbeddingGenerator.total_tokens
    n_gen,        \* generate_embedding calls made
    spc,          \* search_places_with_location: position of the call
    query,        \* its locals query, neighborhood, limit
    neighborhood,
    limit,
    results,      \* its list results (kept as it was before the final sort)
    all_ids,      \* its local all_ids, Unbound until assigned
    search_ret,   \* the list returned
    search_log,   \* the rows each stage fetched
    tables        \* location_extraction.py: the two module-level dicts, as they are now

pureVars == <<fn, arg, ret>>

pipeVars == <<impl, base_df, google_df, osm_df, website_json, pc, idx, processed_venues, stats,
              output_file, error_log>>

dbVars == <<places, review_rows, embeddings, place_seq, review_seq, emb_seq, now,
            has_pgvector, n_saves, last_save, saved_cids, store_ret,
            fresh>>

batchVars == <<bpc, new_places, updated_places, place_reviews, processed, content,
               batch_ret, run_log, last_fetch, n_runs>>

genVars == <<gpc, attempt, gtext, gresult, service_calls, waits, total_tokens, n_gen>>

searchVars == <<spc, query, neighborhood, limit, results, all_ids, search_ret,
                search_log, tables>>

storeVars == <<dbVars, batchVars, genVars, searchVars>>

vars == <<fn, arg, ret, numpyStrict, impl, base_df, google_df, osm_df, website_json,
          pc, idx,
          processed_venues, stats, output_file, error_log,
          places, review_rows, embeddings, place_seq, review_seq, emb_seq, now,
          has_pgvector, n_saves, last_save, saved_cids, store_ret, fresh,
          bpc, new_places, updated_places, place_reviews, processed, content,
          batch_ret, run_log, last_fetch, n_runs,
          gpc, attempt, gtext, gresult, service_calls, waits, total_tokens, n_gen,
          spc, query, neighborhood, limit, results, all_ids, search_ret, search_log,
          tables>>

-----------------------------------------------------------------------------
(* Bounds of the model *)

MaxListLen == 2

MaxPriceLen == 3

MaxVenues == 2

MaxSaves == 2

MaxRuns == 2

MaxGenCalls == 2

MaxPlaces == 3

MaxLimit == 3

-----------------------------------------------------------------------------
(* Python values *)

PyNone == [t |-> "none"]
PyNaN == [t |-> "nan"]
PyStr(s) == [t |-> "str", s |-> s]
PyInt(i) == [t |-> "int", n |-> i]
PyList(items) == [t |-> "list", items |-> items]
PyBool(b) == [t |-> "bool", b |-> b]
PyDict(has, text, source) == [t |-> "dict", has |-> has, text |-> text, source |-> source]
Review(text, source) == PyDict({"text", "source"}, text, source)

\* the dict {} that fetch_resy_data returns for a venue without Resy data
EmptyResy == [t |-> "noresy"]

NoVal == [t |-> "noval"]
Ok(v) == [exc |-> "none", val |-> v]
Raise(e) == [exc |-> e, val |-> NoVal]
Pending == [exc |-> "pending", val |-> NoVal]

SeqsUpTo(S, n) == UNION {[1..k -> S] : k \in 0..n}

\* bool(x)
Truthy(v) ==
    CASE v.t = "none" -> FALSE
      [] v.t = "nan" -> TRUE
      [] v.t = "int" -> v.n # 0
      [] v.t = "str" -> v.s # ""
      [] v.t = "chars" -> v.cs # <<>>
      [] v.t = "dict" -> v.has # {}
      [] v.t = "list" -> Len(v.items) > 0
      [] OTHER -> FALSE

\* pd.isna on a scalar (a dict is an object scalar: False)
IsNaScalar(v) == v.t \in {"none", "nan"}

\* bool(pd.isna(v)): pd.isna of a list is the element-wise array, whose truth
\* value is ambiguous for two or more elements and, for none, depends on numpy
BoolIsNa(v, strict) ==
    IF v.t = "list"
    THEN IF Len(v.items) >= 2 THEN Raise("ValueError")
         ELSE IF Len(v.items) = 0
              THEN (IF strict THEN Raise("ValueError") ELSE Ok(FALSE))
              ELSE Ok(IsNaScalar(v.items[1]))
    ELSE Ok(IsNaScalar(v))

\* str(x)
StrOf(v) ==
    CASE v.t = "none" -> "None"
      [] v.t = "nan" -> "nan"
      [] v.t = "int" -> (CASE v.n = 0 -> "0" [] v.n = 7 -> "7" [] OTHER -> "42")
      [] v.t = "str" -> v.s
      [] v.t = "dict" -> (IF v.has = {} THEN "{}"
                          ELSE IF v.has = {"text"} THEN "{'text': '" \o v.text \o "'}"
                          ELSE "{'text': '" \o v.text \o "', 'source': '" \o v.source \o "'}")
      [] OTHER -> "[...]"

\* str.lower() on the words of the model
Lower(w) ==
    CASE w = "Cozy" -> "cozy"
      [] w = "Italian" -> "italian"
      [] w = "Bar" -> "bar"
      [] w = "Best" -> "best"
      [] w = "SoHo" -> "soho"
      [] w = "Brooklyn" -> "brooklyn"
      [] w = "Central" -> "central"
      [] w = "N/A" -> "n/a"
      [] w = "Unknown" -> "unknown"
      [] w = "Coming" -> "coming"
      [] OTHER -> w

\* json.loads on the strings of the model: the parsed value, or JSONDecodeError
JsonLoads(s) ==
    CASE s = "[\"good\", \"bad\"]" -> Ok(PyList(<<PyStr("good"), PyStr("bad")>>))
      [] s = "[\"good\", \"\", null]" -> Ok(PyList(<<PyStr("good"), PyStr(""), PyNone>>))
      [] s = "[]" -> Ok(PyList(<<>>))
      [] s = "[7]" -> Ok(PyList(<<PyInt(7)>>))
      [] s = "42" -> Ok(PyInt(42))
      [] s = "null" -> Ok(PyNone)
      [] s = "{\"text\": \"good\"}" -> Ok(PyDict({"text"}, "good", ""))
      [] OTHER -> Raise("JSONDecodeError")

-----------------------------------------------------------------------------
(* data_integration/assembling_pipeline.py: the field normaliser *)

IsFullReview(r) == r.t = "dict" /\ "text" \in r.has /\ "source" \in r.has

\* [{'text': str(review), 'source': 'unknown'} for review in items if <keep>]
WrapUnknown(items, keep) ==
    LET kept == SelectSeq(items, LAMBDA r : keep[r])
    IN [i \in 1..Len(kept) |-> Review(StrOf(kept[i]), "unknown")]

\* keep-predicates of the two comprehensions, as functions over the items
KeepTruthy(items) ==
    [r \in {items[i] : i \in 1..Len(items)} |-> Truthy(r)]

KeepTruthyNotNa(items) ==
    [r \in {items[i] : i \in 1..Len(items)} |-> Truthy(r) /\ ~IsNaScalar(r)]

\* _parse_reviews(reviews); strict is the numpy behaviour on an empty array
ParseReviews(reviews, strict) ==
    LET na == BoolIsNa(reviews, strict)
    IN  IF na.exc # "none" THEN Raise(na.exc)
        ELSE IF na.val \/ reviews.t = "none" THEN Ok(<<>>)
        ELSE IF reviews.t = "list"
                /\ \A i \in 1..Len(reviews.items) :
                      Truthy(reviews.items[i]) => IsFullReview(reviews.items[i])
        THEN Ok(SelectSeq(reviews.items, Truthy))
        ELSE IF reviews.t = "str"
        THEN LET parsed == JsonLoads(reviews.s)
                 whole == IF Truthy(reviews) THEN <<Review(reviews.s, "unknown")>> ELSE <<>>
             IN  IF parsed.exc # "none" THEN Ok(whole)
                 ELSE IF parsed.val.t = "list"
                 THEN Ok(WrapUnknown(parsed.val.items, KeepTruthy(parsed.val.items)))
                 ELSE Ok(whole)
        ELSE IF reviews.t = "list"
        THEN Ok(WrapUnknown(reviews.items, KeepTruthyNotNa(reviews.items)))
        ELSE IF ~IsNaScalar(reviews) THEN Ok(<<Review(StrOf(reviews), "unknown")>>)
        ELSE Ok(<<>>)

-----------------------------------------------------------------------------
(* generate_embeddings.py: price parsing *)

PyChars(cs) == [t |-> "chars", cs |-> cs]

Digits == {"0", "1", "2", "3", "4", "5", "6", "7", "8", "9"}

DigitVal(c) ==
    CASE c = "0" -> 0 [] c = "1" -> 1 [] c = "2" -> 2 [] c = "3" -> 3 [] c = "4" -> 4
      [] c = "5" -> 5 [] c = "6" -> 6 [] c = "7" -> 7 [] c = "8" -> 8 [] OTHER -> 9

UnicodePunct == {"EN", "EM", "LDQ", "RDQ", "LSQ", "RSQ"}

\* the six str.replace calls of clean_price_range, one character at a time
AsciiOf(c) ==
    CASE c = "EN" -> "-"
      [] c = "EM" -> "-"
      [] c = "LDQ" -> "\""
      [] c = "RDQ" -> "\""
      [] c = "LSQ" -> "'"
      [] c = "RSQ" -> "'"
      [] OTHER -> c

ReplaceUnicode(cs) == [i \in 1..Len(cs) |-> AsciiOf(cs[i])]

\* re.sub(r'\s+', ' ', price).strip()
RECURSIVE CollapseSpaces(_)
CollapseSpaces(cs) ==
    IF Len(cs) <= 1 THEN cs
    ELSE IF cs[1] = " " /\ cs[2] = " " THEN CollapseSpaces(Tail(cs))
    ELSE <<cs[1]>> \o CollapseSpaces(Tail(cs))

RECURSIVE StripLeft(_)
StripLeft(cs) ==
    IF cs # <<>> /\ cs[1] = " " THEN StripLeft(Tail(cs)) ELSE cs

RECURSIVE StripRight(_)
StripRight(cs) ==
    IF cs # <<>> /\ cs[Len(cs)] = " " THEN StripRight(SubSeq(cs, 1, Len(cs) - 1)) ELSE cs

Strip(cs) == StripLeft(StripRight(cs))

CleanedPrice(cs) == Strip(CollapseSpaces(ReplaceUnicode(cs)))

\* str(n) for the numbers of the model
RECURSIVE DigitsOf(_)
DigitsOf(n) ==
    IF n < 10
    THEN <<CHOOSE c \in Digits : DigitVal(c) = n>>
    ELSE DigitsOf(n \div 10) \o <<CHOOSE c \in Digits : DigitVal(c) = n % 10>>

\* clean_price_range(price_range).  The string branch computes the cleaned
\* text and then executes "return pricep": pricep is no name in scope, so the
\* call raises NameError.
CleanPriceRange(p) ==
    IF p.t = "none" \/ (p.t = "chars" /\ p.cs = <<>>) \/ (p.t = "int" /\ p.n = 0)
    THEN Ok(PyNone)
    ELSE IF p.t = "chars"
    THEN LET price == CleanedPrice(p.cs)
         IN  Raise("NameError")
    ELSE IF p.t = "int" THEN Ok(PyChars(<<"$">> \o DigitsOf(p.n)))
    ELSE Ok(PyNone)

CountChar(cs, c) == Cardinality({i \in 1..Len(cs) : cs[i] = c})

\* the maximal digit runs of cs, as <<first, last>> index pairs, left to right
RECURSIVE DigitRunsFrom(_, _)
DigitRunsFrom(cs, i) ==
    IF i > Len(cs) THEN <<>>
    ELSE IF cs[i] \notin Digits THEN DigitRunsFrom(cs, i + 1)
    ELSE LET stops == {j \in i..Len(cs) : cs[j] \notin Digits}
             last == IF stops = {} THEN Len(cs)
                     ELSE (CHOOSE j \in stops : \A k \in stops : j <= k) - 1
         IN  <<<<i, last>>>> \o DigitRunsFrom(cs, last + 1)

RECURSIVE IntOf(_)
IntOf(ds) ==
    IF ds = <<>> THEN 0 ELSE 10 * IntOf(SubSeq(ds, 1, Len(ds) - 1)) + DigitVal(ds[Len(ds)])

RunValue(cs, run) == IntOf(SubSeq(cs, run[1], run[2]))

\* the bucket of a price value, doubled to keep the average (low + high) / 2 exact
LevelOfTwice(twice) ==
    IF twice < 30 THEN 1 ELSE IF twice < 60 THEN 2 ELSE IF twice < 120 THEN 3 ELSE 4

PriceLevel(price) ==
    LET dollar_count == CountChar(price, "$")
        runs == DigitRunsFrom(price, 1)
    IN  IF dollar_count > 0 THEN dollar_count
        ELSE IF Len(runs) >= 2
        THEN LevelOfTwice(RunValue(price, runs[1]) + RunValue(price, runs[2]))
        ELSE IF Len(runs) = 1 THEN LevelOfTwice(2 * RunValue(price, runs[1]))
        ELSE 2

PriceDescription(level) ==
    CASE level = 1 -> "Budget-friendly, inexpensive, affordable"
      [] level = 2 -> "Moderately priced, mid-range"
      [] level = 3 -> "Higher-end, upscale, expensive"
      [] level = 4 -> "Fine dining, premium, luxury, high-end"
      [] OTHER -> ""

\* process_price_range(price_range)
ProcessPriceRange(p) ==
    IF p.t = "none" \/ (p.t = "chars" /\ p.cs = <<>>) \/ (p.t = "int" /\ p.n = 0)
    THEN Ok(PyNone)
    ELSE LET cleaned == CleanPriceRange(p)
         IN  IF cleaned.exc # "none" THEN Raise(cleaned.exc)
             ELSE IF cleaned.val.t = "none" \/ cleaned.val.cs = <<>> THEN Ok(PyNone)
             ELSE LET price == cleaned.val.cs
                      level == PriceLevel(price)
                  IN  Ok([t |-> "price", original |-> price, level |-> level,
                          description |-> PriceDescription(level)])

-----------------------------------------------------------------------------
(* postgres_migration.py: the places and reviews tables and save_to_db      *)
(*                                                                         *)
(* A text is kept by what the code reads of it: [len, low, ver] is a        *)
(* string of len characters that holds a low-information phrase iff low;    *)
(* ver tells two values of one column apart.                                *)

Text(len, low, ver) == [t |-> "text", len |-> len, low |-> low, ver |-> ver]

\* a list of tags, by the lengths of the tags
TagList(lens, ver) == [t |-> "taglist", lens |-> lens, ver |-> ver]

\* the hours dict {"Monday": "Closed"}
ClosedMonday == [t |-> "dict", has |-> {"Monday"}, text |-> "Closed", source |-> ""]

NoSave == [t |-> "nosave"]

StoreIdleDb ==
    /\ places = {}
    /\ review_rows = {}
    /\ embeddings = {}
    /\ place_seq = 0
    /\ review_seq = 0
    /\ emb_seq = 0
    /\ now = 0
    /\ n_saves = 0
    /\ last_save = NoSave
    /\ saved_cids = {}
    /\ store_ret = NoVal
    /\ fresh = {}

\* the columns ON CONFLICT ... DO UPDATE SET assigns from EXCLUDED
MutableColumns ==
    {"google_id", "name", "neighborhood", "website", "instagram_handle", "price_range",
     "combined_description", "tags", "address", "hours"}

\* hours_json: json.dumps of a dict, a string as it is, None otherwise
HoursJson(hours) ==
    IF hours.t \in {"dict", "str"} /\ Truthy(hours) THEN hours ELSE PyNone

\* the parameter tuple of the INSERT, by column
InsertValues(place_data) ==
    [google_id |-> place_data.google_id,
     name |-> place_data.name,
     neighborhood |-> place_data.neighborhood,
     website |-> place_data.website,
     instagram_handle |-> place_data.instagram_handle,
     price_range |-> place_data.price_range,
     combined_description |-> place_data.combined_description,
     tags |-> place_data.tags,
     address |-> place_data.address,
     hours |-> HoursJson(place_data.hours)]

NewRow(id, cid, vals, ts) ==
    [id |-> id, corner_place_id |-> cid,
     google_id |-> vals.google_id, name |-> vals.name,
     neighborhood |-> vals.neighborhood, website |-> vals.website,
     instagram_handle |-> vals.instagram_handle, price_range |-> vals.price_range,
     combined_description |-> vals.combined_description, tags |-> vals.tags,
     address |-> vals.address, hours |-> vals.hours,
     created_at |-> ts, updated_at |-> ts, embedding_status |-> PyNone]

\* an update that leaves the tags of the stored row
UpdatedRowKeepingTags(row, vals, ts) ==
    [row EXCEPT !.google_id = vals.google_id, !.name = vals.name,
                !.neighborhood = vals.neighborhood, !.website = vals.website,
                !.instagram_handle = vals.instagram_handle,
                !.price_range = vals.price_range,
                !.combined_description = vals.combined_description,
                !.address = vals.address, !.hours = vals.hours,
                !.updated_at = ts]

\* DO UPDATE SET <the mutable columns> = EXCLUDED.<column>, updated_at = CURRENT_TIMESTAMP
UpdatedRow(row, vals, ts) ==
    [row EXCEPT !.google_id = vals.google_id, !.name = vals.name,
                !.neighborhood = vals.neighborhood, !.website = vals.website,
                !.instagram_handle = vals.instagram_handle,
                !.price_range = vals.price_range,
                !.combined_description = vals.combined_description,
                !.tags = vals.tags, !.address = vals.address, !.hours = vals.hours,
                !.updated_at = ts]

\* INSERT INTO places ... ON CONFLICT (corner_place_id) DO UPDATE ... RETURNING id:
\* the table after the statement and the id returned.  The id drawn from the
\* sequence is used only when no row conflicts.
UpsertPlace(rows, place_data, next_id, ts) ==
    LET hit == {r \in rows : r.corner_place_id = place_data.corner_place_id}
        vals == InsertValues(place_data)
    IN  IF hit = {}
        THEN [rows |-> rows \cup {NewRow(next_id, place_data.corner_place_id, vals, ts)},
              id |-> next_id]
        ELSE [rows |-> (rows \ hit) \cup {UpdatedRow(r, vals, ts) : r \in hit},
              id |-> (CHOOSE r \in hit : TRUE).id]

\* INSERT INTO reviews (place_id, source, review_text, posted_at), one row per
\* review of the call, ids from the sequence
InsertReviews(rows, place_id, revs, seq) ==
    rows \cup {[id |-> seq + i, place_id |-> place_id, source |-> revs[i].source,
                review_text |-> revs[i].review_text] : i \in 1..Len(revs)}

\* building review_data raises KeyError when a review lacks one of its keys
ReviewDataRaises(revs) == \E i \in 1..Len(revs) : ~revs[i].ok

\* the arguments of the model
ReviewIn(text, ok) == [source |-> "google", review_text |-> text, ok |-> ok]

ReviewLists_None == <<>>

ReviewLists_One == <<ReviewIn(Text(60, FALSE, 1), TRUE)>>

\* the last list holds a review without one of its keys
ReviewLists ==
    {ReviewLists_None, ReviewLists_One,
     <<ReviewIn(Text(60, FALSE, 1), TRUE), ReviewIn(Text(20, FALSE, 2), FALSE)>>}

\* the place_data saved: a venue in a first and a second version and with a
\* price range, each with every review list, and a venue whose description is
\* "N/A", without reviews and with one
SaveInputs ==
    {<<"c1", pl[1], pl[2], revs>> :
        pl \in {<<1, "rich">>, <<2, "rich">>, <<2, "priced">>}, revs \in ReviewLists}
    \cup {<<"c2", 1, "na", revs>> : revs \in {ReviewLists_None, ReviewLists_One}}

PlaceData(cid, ver, kind, revs) ==
    [corner_place_id |-> cid,
     google_id |-> PyInt(ver),
     name |-> Text(5, FALSE, ver),
     neighborhood |-> PyStr(IF ver = 1 THEN "SoHo" ELSE "Tribeca"),
     website |-> PyInt(ver),
     instagram_handle |-> PyInt(ver),
     price_range |-> IF kind = "priced" THEN PyChars(<<"$", "$">>) ELSE PyNone,
     combined_description |-> IF kind = "na" THEN Text(3, TRUE, ver)
                              ELSE Text(200, TRUE, ver),
     tags |-> IF kind = "na" THEN PyNone ELSE TagList(<<4, 6>>, ver),
     address |-> IF kind = "na" THEN PyNone ELSE Text(12, FALSE, ver),
     hours |-> IF ver = 1 THEN PyNone ELSE ClosedMonday,
     reviews |-> revs]

\* a handler that leaves the statements of the transaction in the table
KeepWorking(before, working) == working

\* self.conn.rollback() of line 560: the table as it was when the transaction
\* began, whatever its statements had written
Rollback(before, working) == before

\* save_to_db(place_data): one transaction; rolled back and re-raised when
\* any statement raises
SaveToDb(cid, ver, kind, revs) ==
    /\ n_saves < MaxSaves
    /\ bpc \in {"idle", "returned"}
    /\ LET place_data == PlaceData(cid, ver, kind, revs)
           ts == now + 1
           up == UpsertPlace(places, place_data, place_seq + 1, ts)
           fails == ReviewDataRaises(revs)
       IN  /\ now' = ts
           /\ place_seq' = place_seq + 1
           /\ IF fails
              THEN /\ places' = Rollback(places, up.rows)
                   /\ review_rows' = Rollback(review_rows, review_rows)
                   /\ UNCHANGED <<review_seq, saved_cids, fresh>>
              ELSE /\ places' = up.rows
                   /\ fresh' = fresh \ {up.id}
                   /\ review_rows' = InsertReviews(review_rows, up.id, revs, review_seq)
                   /\ review_seq' = review_seq + Len(revs)
                   /\ saved_cids' = saved_cids \cup {cid}
           /\ last_save' = [t |-> "save", place_data |-> place_data, raised |-> fails,
                            places_before |-> places, reviews_before |-> review_rows]
    /\ n_saves' = n_saves + 1
    /\ UNCHANGED <<embeddings, emb_seq, has_pgvector, store_ret, batchVars, genVars>>
    /\ UNCHANGED <<pureVars, numpyStrict, pipeVars, searchVars>>

-----------------------------------------------------------------------------
(* generate_embeddings.py: generate_embedding                               *)

max_retries == 3

retry_delay == 2

max_chars == 25000

NoResult == [embedding |-> NoVal, tokens |-> 0]

GenIdle ==
    /\ gpc = "idle"
    /\ attempt = 0
    /\ gtext = 0
    /\ gresult = NoResult
    /\ service_calls = 0
    /\ waits = <<>>
    /\ total_tokens = 0
    /\ n_gen = 0

\* len(text) after the safeguard: text[:max_chars] + "..."
SentLength(len) == IF len > max_chars THEN max_chars + 3 ELSE len

\* response.usage.total_tokens of the service for a text of that length
TokensOf(len) == len \div 4 + 1

\* a wait growing by retry_delay with each attempt
WaitTimeLinear(k) == retry_delay * (k + 1)

\* wait_time = retry_delay * (2 ** attempt)
WaitTime(k) == retry_delay * 2^k

\* entry of generate_embedding(text), text of length len
EnterGenerateEmbedding(len) ==
    /\ gpc' = "attempt"
    /\ attempt' = 0
    /\ gtext' = SentLength(len)
    /\ gresult' = NoResult
    /\ service_calls' = 0
    /\ waits' = <<>>
    /\ n_gen' = n_gen + 1
    /\ UNCHANGED total_tokens

\* client.embeddings.create answers: the vector and the token count are returned
GenServiceOk ==
    /\ gpc = "attempt"
    /\ attempt < max_retries
    /\ service_calls' = service_calls + 1
    /\ total_tokens' = total_tokens + TokensOf(gtext)
    /\ gresult' = [embedding |-> [t |-> "vec", of |-> gtext], tokens |-> TokensOf(gtext)]
    /\ gpc' = "returned"
    /\ UNCHANGED <<attempt, gtext, waits, n_gen>>
    /\ UNCHANGED <<dbVars, batchVars, pureVars, numpyStrict, pipeVars, searchVars>>

\* the attempt raises: the except clause computes wait_time and sleeps
GenServiceFail ==
    /\ gpc = "attempt"
    /\ attempt < max_retries
    /\ service_calls' = service_calls + 1
    /\ waits' = Append(waits, WaitTime(attempt))
    /\ gpc' = "sleep"
    /\ UNCHANGED <<attempt, gtext, gresult, total_tokens, n_gen>>
    /\ UNCHANGED <<dbVars, batchVars, pureVars, numpyStrict, pipeVars, searchVars>>

\* time.sleep(wait_time) is over: next iteration of the for loop
GenSleepDone ==
    /\ gpc = "sleep"
    /\ attempt' = attempt + 1
    /\ gpc' = "attempt"
    /\ UNCHANGED <<gtext, gresult, service_calls, waits, total_tokens, n_gen>>
    /\ UNCHANGED <<dbVars, batchVars, pureVars, numpyStrict, pipeVars, searchVars>>

\* range(max_retries) is exhausted: return None, 0
GenExhausted ==
    /\ gpc = "attempt"
    /\ attempt >= max_retries
    /\ gresult' = [embedding |-> PyNone, tokens |-> 0]
    /\ gpc' = "returned"
    /\ UNCHANGED <<attempt, gtext, service_calls, waits, total_tokens, n_gen>>
    /\ UNCHANGED <<dbVars, batchVars, pureVars, numpyStrict, pipeVars, searchVars>>

GenStep == GenServiceOk \/ GenServiceFail \/ GenSleepDone \/ GenExhausted

-----------------------------------------------------------------------------
(* generate_embeddings.py: composing the content, the embeddings table and  *)
(* process_all_places                                                       *)

NoFetch == [t |-> "nofetch"]

BatchIdle ==
    /\ bpc = "idle"
    /\ new_places = <<>>
    /\ updated_places = <<>>
    /\ place_reviews = <<>>
    /\ processed = 0
    /\ content = PyNone
    /\ batch_ret = NoVal
    /\ run_log = {}
    /\ last_fetch = NoFetch
    /\ n_runs = 0

\* a local holding a set, before and after its assignment
Unbound == [bound |-> FALSE, ids |-> {}]

Bound(ids) == [bound |-> TRUE, ids |-> ids]

NoSearch == [t |-> "nosearch"]

\* the rows of a query of the search, before and after it ran
NotFetched == [run |-> FALSE, rows |-> <<>>]

Fetched(rows) == [run |-> TRUE, rows |-> rows]

(* location_extraction.py: the module-level tables *)

ADJACENT_NEIGHBORHOODS ==
    ("SoHo" :> <<"NoHo", "Little Italy", "Tribeca", "Greenwich Village">>)
    @@ ("East Village" :> <<"NoHo", "Lower East Side", "Alphabet City", "Gramercy">>)
    @@ ("West Village" :> <<"Greenwich Village", "Chelsea District",
                            "Meatpacking District">>)
    @@ ("Lower East Side" :> <<"East Village", "Chinatown", "Little Italy">>)
    @@ ("Tribeca" :> <<"SoHo", "Financial District", "Chinatown">>)
    @@ ("Midtown" :> <<"Chelsea District", "Midtown East", "Midtown West",
                       "Theater District">>)
    @@ ("Brooklyn" :> <<"Williamsburg", "Brooklyn Heights", "Greenpoint">>)
    @@ ("Chinatown" :> <<"Little Italy", "Lower East Side", "Financial District">>)
    @@ ("Chelsea District" :> <<"West Village", "Midtown", "Meatpacking District">>)
    @@ ("Greenwich Village" :> <<"West Village", "SoHo", "NoHo">>)

\* NEIGHBORHOOD_MAPPING in the order of the source: the aliases that the
\* words of the model can spell, each with its canonical name
NEIGHBORHOOD_MAPPING ==
    <<[key |-> <<"brooklyn">>, name |-> "Brooklyn"],
      [key |-> <<"soho">>, name |-> "SoHo"],
      [key |-> <<"les">>, name |-> "Lower East Side"],
      [key |-> <<"midtown">>, name |-> "Midtown"],
      [key |-> <<"midtown", "east">>, name |-> "Midtown East"],
      [key |-> <<"central", "park">>, name |-> "Upper East Side"]>>

\* the two dicts as the module creates them when it is imported
StartupTables ==
    [NEIGHBORHOOD_MAPPING |-> NEIGHBORHOOD_MAPPING,
     ADJACENT_NEIGHBORHOODS |-> ADJACENT_NEIGHBORHOODS]

SearchIdle ==
    /\ spc = "idle"
    /\ tables = StartupTables
    /\ query = PyNone
    /\ neighborhood = PyNone
    /\ limit = 0
    /\ results = <<>>
    /\ all_ids = Unbound
    /\ search_ret = NoVal
    /\ search_log = NoSearch

StoreIdle == StoreIdleDb /\ has_pgvector = TRUE /\ BatchIdle /\ GenIdle /\ SearchIdle

\* validate_text(text) for a text of the places table
ValidateText(text) ==
    /\ text.t = "text"
    /\ text.len >= 10
    /\ ~(text.low /\ text.len < 100)

\* parse_tags(tags_data): the lengths of the tags kept
ParseTags(tags_data) == IF tags_data.t = "taglist" THEN tags_data.lens ELSE <<>>

\* the hours value "by appointment", a JSON string and not a dict
HoursNote == PyStr("by appointment")

\* process_business_hours(hours): None, or the lengths of its two texts; a
\* value that is not a dict has no per-day text and no open day
ProcessBusinessHours(hours) ==
    IF hours = ClosedMonday
    THEN [t |-> "hours", original_len |-> Len("Monday: Closed"),
          description |-> "Closed on Mondays"]
    ELSE IF hours = HoursNote
    THEN [t |-> "hours", original_len |-> 0, description |-> "Closed on Mondays"]
    ELSE PyNone

SumSeq(lens) ==
    LET RECURSIVE Sum(_)
        Sum(i) == IF i = 0 THEN 0 ELSE lens[i] + Sum(i - 1)
    IN  Sum(Len(lens))

\* len(sep.join(parts)) from the lengths of the parts
JoinedLength(lens, sep) ==
    IF lens = <<>> THEN 0 ELSE SumSeq(lens) + sep * (Len(lens) - 1)

Min(a, b) == IF a < b THEN a ELSE b

(* validate_text on a description as it is typed: PyChars of its pieces,    *)
(* words and blanks.  Filler stands for ninety letters that spell no phrase. *)

Filler == "<ninety letters>"

PieceLen(piece) == IF piece = Filler THEN 90 ELSE Len(piece)

\* len(text)
TextLen(text) ==
    IF text.t = "text" THEN text.len
    ELSE SumSeq([i \in 1..Len(text.cs) |-> PieceLen(text.cs[i])])

low_info_patterns ==
    <<<<"not", " ", "available">>, <<"n/a">>, <<"none">>, <<"unknown">>, <<"null">>,
      <<"undefined">>, <<"to be added">>, <<"coming", " ", "soon">>>>

\* pattern in text_lower: the pieces of the pattern in a row, or a one-piece
\* pattern inside a longer word
PatternIn(pattern, cs) ==
    \/ \E i \in 1..(Len(cs) - Len(pattern) + 1) :
          \A j \in 1..Len(pattern) : cs[i + j - 1] = pattern[j]
    \/ /\ Len(pattern) = 1
       /\ \E i \in 1..Len(cs) : cs[i] = "nonetheless" /\ pattern[1] = "none"

Verdict(valid, msg, pattern) == [valid |-> valid, msg |-> msg, pattern |-> pattern]

\* the loop of lines 391-393 without the test of the length
LowInfoAtAnyLength(text) ==
    {p \in 1..Len(low_info_patterns) :
        PatternIn(low_info_patterns[p], [i \in 1..Len(text.cs) |-> Lower(text.cs[i])])}

\* lines 391-393: the patterns that are in text.lower() while the text is
\* under 100 characters
LowInfoHits(text) ==
    {p \in 1..Len(low_info_patterns) :
        /\ PatternIn(low_info_patterns[p], [i \in 1..Len(text.cs) |-> Lower(text.cs[i])])
        /\ TextLen(text) < 100}

\* validate_text(text): the pair (is_valid, message); the message of a
\* pattern names the first one found
ValidateTextResult(text) ==
    IF ~Truthy(text) THEN Verdict(FALSE, "Text is empty", <<>>)
    ELSE IF text.t # "chars" THEN Verdict(FALSE, "Text is not a string", <<>>)
    ELSE IF TextLen(text) < 10 THEN Verdict(FALSE, "Text is too short", <<>>)
    ELSE LET hits == LowInfoHits(text)
         IN  IF hits # {}
             THEN Verdict(FALSE, "Text contains low-information pattern",
                          low_info_patterns[CHOOSE p \in hits : \A q \in hits : p <= q])
             ELSE Verdict(TRUE, "Text is valid", <<>>)

\* extract_resy_details(resy_data): the length of the text; the three notes
\* are kept by their lengths, 0 for a note that is missing
ExtractResyDetails(resy_data) ==
    IF resy_data.t # "resy" THEN 0
    ELSE JoinedLength(
             (IF resy_data.why_we_like_it > 0
              THEN <<Len("Why Resy likes it: ") + resy_data.why_we_like_it>> ELSE <<>>)
             \o (IF resy_data.about > 0
                 THEN <<Len("About: ") + resy_data.about>> ELSE <<>>)
             \o (IF resy_data.need_to_know > 0
                 THEN <<Len("Need to know: ") + resy_data.need_to_know>> ELSE <<>>), 2)

\* fetch_resy_data(corner_id): the resy_data of the venue in
\* combined_data.json, {} when the file or the venue is missing
FetchResyData(place) ==
    IF "resy_data" \in DOMAIN place THEN place.resy_data ELSE EmptyResy

\* the lines of the reviews part: at most 5 reviews, 300 characters each
ReviewLines(revs) ==
    [i \in 1..Min(5, Len(revs)) |-> [of |-> i, len |-> Min(revs[i].len, 300)]]

\* the "Reviews:\n- ...\n- ..." part
ReviewsPart(revs) ==
    LET max_reviews == Min(5, Len(revs))
        lines == [i \in 1..max_reviews |-> Len("- ") + Min(revs[i].len, 300)]
    IN  Len("Reviews:") + 1 + JoinedLength(lines, 1)

\* one element of content_parts: its label, its length and, for the
\* reviews, its lines
Part(label, len, lines) == [label |-> label, len |-> len, lines |-> lines]

\* if description: is_valid, msg = self.validate_text(description)
DescriptionValid(description) ==
    IF description.t = "text" THEN ValidateText(description)
    ELSE ValidateTextResult(description).valid

\* content_parts of prepare_text_for_embedding, lines 476-528, when
\* process_price_range returned
ContentParts(place, revs) ==
    LET processed_price == ProcessPriceRange(place.price_range)
        processed_hours == ProcessBusinessHours(place.hours)
        tags == ParseTags(place.tags)
        resy_text == ExtractResyDetails(FetchResyData(place))
        name_part == <<Part("Name", Len("Name: ") + place.name.len, <<>>)>>
        hood_part == IF Truthy(place.neighborhood)
                     THEN <<Part("Neighborhood",
                                 Len("Neighborhood: ") + Len(place.neighborhood.s), <<>>)>>
                     ELSE <<>>
        price_part == IF processed_price.exc = "none" /\ processed_price.val.t = "price"
                      THEN <<Part("Price Range",
                                  Len("Price Range: ") + Len(processed_price.val.original),
                                  <<>>),
                             Part("Price Category",
                                  Len("Price Category: ")
                                      + Len(processed_price.val.description), <<>>)>>
                      ELSE <<>>
        addr_part == IF place.address.t = "text" /\ place.address.len > 0
                     THEN <<Part("Address", Len("Address: ") + place.address.len, <<>>)>>
                     ELSE <<>>
        hours_part == IF processed_hours.t = "hours"
                      THEN (IF processed_hours.original_len > 0
                            THEN <<Part("Hours",
                                        Len("Hours: ") + processed_hours.original_len,
                                        <<>>)>>
                            ELSE <<>>)
                           \o (IF processed_hours.description # ""
                               THEN <<Part("Hours Info",
                                           Len("Hours Info: ")
                                               + Len(processed_hours.description), <<>>)>>
                               ELSE <<>>)
                      ELSE <<>>
        desc_part == IF DescriptionValid(place.combined_description)
                     THEN <<Part("Description",
                                 Len("Description: ") + TextLen(place.combined_description),
                                 <<>>)>>
                     ELSE <<>>
        tags_part == IF tags # <<>>
                     THEN <<Part("Tags", Len("Tags: ") + JoinedLength(tags, 2), <<>>)>>
                     ELSE <<>>
        resy_part == IF resy_text > 0
                     THEN <<Part("From Resy", Len("From Resy: ") + resy_text, <<>>)>>
                     ELSE <<>>
        revs_part == IF revs # <<>>
                     THEN <<Part("Reviews", ReviewsPart(revs), ReviewLines(revs))>>
                     ELSE <<>>
    IN  name_part \o hood_part \o price_part \o addr_part \o hours_part
            \o desc_part \o tags_part \o resy_part \o revs_part

\* prepare_text_for_embedding(place, reviews): the outcome is the content, kept
\* by its parts and its length, or None when it is under 50 characters; the
\* content hash is a function of the content and is kept with it
PrepareTextForEmbedding(place, revs) ==
    LET processed_price == ProcessPriceRange(place.price_range)
        content_parts == ContentParts(place, revs)
        length == JoinedLength([i \in 1..Len(content_parts) |-> content_parts[i].len], 2)
    IN  IF processed_price.exc # "none" THEN Raise(processed_price.exc)
        ELSE IF length < 50 THEN Ok(PyNone)
        ELSE Ok([t |-> "content", len |-> length, parts |-> content_parts])

\* a set of rows as the sequence ordered by id
RECURSIVE ById(_)
ById(rows) ==
    IF rows = {} THEN <<>>
    ELSE LET first == CHOOSE r \in rows : \A q \in rows : r.id <= q.id
         IN  <<first>> \o ById(rows \ {first})

\* SELECT ... FROM places p LEFT JOIN embeddings e ON p.id = e.place_id
\* WHERE e.id IS NULL
PlacesWithoutEmbedding(ps, es) ==
    {p \in ps : ~\E e \in es : e.place_id = p.id}

\* a staleness test on created_at instead of updated_at
PlacesOutdatedSinceCreation(ps, es) ==
    {p \in ps : \E e \in es : e.place_id = p.id /\ p.created_at > e.last_updated}

\* SELECT ... FROM places p JOIN embeddings e ON p.id = e.place_id
\* WHERE p.updated_at > e.last_updated
PlacesOutdated(ps, es) ==
    {p \in ps : \E e \in es : e.place_id = p.id /\ p.updated_at > e.last_updated}

\* SELECT place_id, review_text FROM reviews WHERE place_id IN (...), grouped
ReviewsOf(rs, ids) ==
    [id \in ids |->
        LET mine == ById({r \in rs : r.place_id = id})
        IN  [i \in 1..Len(mine) |-> mine[i].review_text]]

\* UPDATE places SET metadata = jsonb_set(..., '{embedding_status}', ...) WHERE id
UpdateEmbeddingStatus(ps, place_id, status, message) ==
    {IF p.id = place_id
     THEN [p EXCEPT !.embedding_status = [status |-> status, message |-> message]]
     ELSE p : p \in ps}

\* a store that does not look at has_pgvector
StoreEmbeddingUnguarded(es, place_id, embedding, pgvector, next_id, ts) ==
    LET hit == {e \in es : e.place_id = place_id /\ e.content_type = "combined"}
    IN  IF hit # {}
        THEN [rows |-> {IF e \in hit
                        THEN [e EXCEPT !.embedding = embedding, !.last_updated = ts]
                        ELSE e : e \in es},
              success |-> TRUE]
        ELSE [rows |-> es \cup {[id |-> next_id, place_id |-> place_id,
                                 embedding |-> embedding, content_type |-> "combined",
                                 last_updated |-> ts]},
              success |-> TRUE]

\* a store that inserts without looking for the row of the pair
StoreEmbeddingInsertOnly(es, place_id, embedding, content_type, pgvector, next_id, ts) ==
    IF ~pgvector THEN [rows |-> es, success |-> FALSE]
    ELSE [rows |-> es \cup {[id |-> next_id, place_id |-> place_id,
                             embedding |-> embedding, content_type |-> content_type,
                             last_updated |-> ts]},
          success |-> TRUE]

\* store_embedding(place_id, embedding, content_type): the embeddings table
\* afterwards and the value returned
StoreEmbeddingAs(es, place_id, embedding, content_type, pgvector, next_id, ts) ==
    LET hit == {e \in es : e.place_id = place_id /\ e.content_type = content_type}
    IN  IF ~pgvector THEN [rows |-> es, success |-> FALSE]
        ELSE IF hit # {}
        THEN LET embedding_id == (ById(hit)[1]).id
             IN  [rows |-> {IF e.id = embedding_id
                            THEN [e EXCEPT !.embedding = embedding, !.last_updated = ts]
                            ELSE e : e \in es},
                  success |-> TRUE]
        ELSE [rows |-> es \cup {[id |-> next_id, place_id |-> place_id,
                                 embedding |-> embedding, content_type |-> content_type,
                                 last_updated |-> ts]},
              success |-> TRUE]

\* store_embedding(place_id, embedding), content_type="combined"
StoreEmbedding(es, place_id, embedding, pgvector, next_id, ts) ==
    StoreEmbeddingAs(es, place_id, embedding, "combined", pgvector, next_id, ts)

Total == Len(new_places) + Len(updated_places)

InNewLoop == processed < Len(new_places)

\* the row of the current iteration
CurrentPlace ==
    IF InNewLoop THEN new_places[processed + 1]
    ELSE updated_places[processed + 1 - Len(new_places)]

LogEntry(place_id, what) == [place_id |-> place_id, what |-> what]

\* process_all_places up to the loops: the fetch, and the early return when
\* nothing is selected
ProcessAllPlacesFetch ==
    /\ bpc \in {"idle", "returned"}
    /\ gpc = "idle"
    /\ n_runs < MaxRuns
    /\ n_runs' = n_runs + 1
    /\ LET news == PlacesWithoutEmbedding(places, embeddings)
           olds == PlacesOutdated(places, embeddings)
           ids == {p.id : p \in news \cup olds}
       IN  /\ new_places' = ById(news)
           /\ updated_places' = ById(olds)
           /\ place_reviews' = ReviewsOf(review_rows, ids)
           /\ last_fetch' = [t |-> "fetch", selected |-> ids, places |-> places,
                             embeddings |-> embeddings, fresh |-> fresh]
           /\ IF news = {} /\ olds = {}
              THEN bpc' = "returned" /\ batch_ret' = PyNone
              ELSE bpc' = "loop" /\ batch_ret' = NoVal
    /\ processed' = 0
    /\ content' = PyNone
    /\ run_log' = {}
    /\ UNCHANGED <<dbVars, genVars, pureVars, numpyStrict, pipeVars, searchVars>>

\* one iteration up to the call of generate_embedding
PrepareVenue ==
    /\ bpc = "loop"
    /\ processed < Total
    /\ LET place == CurrentPlace
           prepared == PrepareTextForEmbedding(place, place_reviews[place.id])
       IN  IF prepared.exc # "none"
           THEN \* the except clause of process_all_places: return 0
                /\ bpc' = "returned"
                /\ batch_ret' = PyInt(0)
                /\ run_log' = run_log \cup {LogEntry(place.id, "raised")}
                /\ UNCHANGED <<places, processed, content, genVars>>
           ELSE IF prepared.val.t = "none"
           THEN /\ places' = UpdateEmbeddingStatus(places, place.id, "failed",
                                                   "No valid content for embedding")
                /\ processed' = processed + 1
                /\ run_log' = run_log \cup {LogEntry(place.id, "no content")}
                /\ UNCHANGED <<bpc, batch_ret, content, genVars>>
           ELSE /\ content' = prepared.val
                /\ bpc' = "embedding"
                /\ EnterGenerateEmbedding(prepared.val.len)
                /\ run_log' = run_log \cup {LogEntry(place.id, "generate")}
                /\ UNCHANGED <<places, processed, batch_ret>>
    /\ UNCHANGED <<review_rows, embeddings, place_seq, review_seq, emb_seq, now,
                   has_pgvector, n_saves, last_save, saved_cids, store_ret,
            fresh>>
    /\ UNCHANGED <<new_places, updated_places, place_reviews, last_fetch, n_runs>>
    /\ UNCHANGED <<pureVars, numpyStrict, pipeVars, searchVars>>

\* the rest of the iteration after generate_embedding returned
StoreVenue ==
    /\ bpc = "embedding"
    /\ gpc = "returned"
    /\ LET place == CurrentPlace
           ok_status == IF InNewLoop THEN "success" ELSE "updated"
           store_msg == IF InNewLoop THEN "Failed to store embedding"
                        ELSE "Failed to update embedding"
           ts == now + 1
           stored == StoreEmbedding(embeddings, place.id, gresult.embedding,
                                    has_pgvector, emb_seq + 1, ts)
       IN  IF gresult.embedding.t = "vec"
           THEN /\ embeddings' = stored.rows
                /\ emb_seq' = IF Cardinality(stored.rows) > Cardinality(embeddings)
                              THEN emb_seq + 1 ELSE emb_seq
                /\ now' = IF has_pgvector THEN ts ELSE now
                /\ fresh' = IF stored.success THEN fresh \cup {place.id} ELSE fresh
                /\ places' = IF stored.success
                             THEN UpdateEmbeddingStatus(places, place.id, ok_status,
                                                        "Used tokens")
                             ELSE UpdateEmbeddingStatus(places, place.id, "failed",
                                                        store_msg)
                /\ run_log' = run_log \cup
                       {LogEntry(place.id, IF stored.success THEN "stored"
                                           ELSE "not stored")}
           ELSE /\ places' = UpdateEmbeddingStatus(places, place.id, "failed",
                                                   "Failed to generate embedding")
                /\ run_log' = run_log \cup {LogEntry(place.id, "not generated")}
                /\ UNCHANGED <<embeddings, emb_seq, now, fresh>>
    /\ processed' = processed + 1
    /\ bpc' = "loop"
    /\ gpc' = "idle"
    /\ content' = PyNone
    /\ attempt' = 0
    /\ gtext' = 0
    /\ gresult' = NoResult
    /\ service_calls' = 0
    /\ waits' = <<>>
    /\ UNCHANGED <<total_tokens, n_gen>>
    /\ UNCHANGED <<review_rows, place_seq, review_seq, has_pgvector, n_saves, last_save,
                   saved_cids, store_ret>>
    /\ UNCHANGED <<new_places, updated_places, place_reviews, batch_ret, last_fetch,
                   n_runs>>
    /\ UNCHANGED <<pureVars, numpyStrict, pipeVars, searchVars>>

\* both loops are over: the summary is logged and total_tokens returned
ProcessAllPlacesReturn ==
    /\ bpc = "loop"
    /\ processed = Total
    /\ bpc' = "returned"
    /\ batch_ret' = PyInt(total_tokens)
    /\ UNCHANGED <<new_places, updated_places, place_reviews, processed, content,
                   run_log, last_fetch, n_runs>>
    /\ UNCHANGED <<dbVars, genVars, pureVars, numpyStrict, pipeVars, searchVars>>


-----------------------------------------------------------------------------
(* data_integration/assembling_pipeline.py and assembling_pipeline.py:       *)
(* reconciliation of one venue                                             *)

\* _is_nan_value(value)
IsNanValue(v) ==
    CASE v.t = "none" -> TRUE
      [] v.t \in {"nan", "int", "str"} -> IsNaScalar(v)
      [] v.t = "list" -> Len(v.items) = 0
      [] OTHER -> FALSE

\* one source's half of _merge_reviews: the parsed reviews tagged with src
TaggedReviews(value, src, strict) ==
    IF IsNanValue(value) THEN Ok(<<>>)
    ELSE LET parsed == ParseReviews(value, strict)
         IN  IF parsed.exc # "none" THEN Raise(parsed.exc)
             ELSE Ok([i \in 1..Len(parsed.val) |->
                        IF parsed.val[i].t = "dict" /\ "text" \in parsed.val[i].has
                        THEN PyDict(parsed.val[i].has \cup {"source"}, parsed.val[i].text, src)
                        ELSE Review(StrOf(parsed.val[i]), src)])

\* _merge_reviews(google_reviews, opentable_reviews) of data_integration/
MergeReviews(google_reviews, opentable_reviews, strict) ==
    LET g == TaggedReviews(google_reviews, "google", strict)
        o == TaggedReviews(opentable_reviews, "opentable", strict)
    IN  IF g.exc # "none" THEN Raise(g.exc)
        ELSE IF o.exc # "none" THEN Raise(o.exc)
        ELSE Ok(g.val \o o.val)

\* _parse_reviews of assembling_pipeline.py on the strings of the model:
\* json.loads('[' + s.strip('[]').replace("'", '"') + ']'), [] when that fails
RootParseReviews(value, strict) ==
    LET na == BoolIsNa(value, strict)
    IN  IF na.exc # "none" THEN Raise(na.exc)
        ELSE IF na.val THEN Ok(<<>>)
        ELSE IF value.t = "str"
        THEN (CASE value.s = "['good', 'bad']" -> Ok(<<PyStr("good"), PyStr("bad")>>)
                [] value.s = "[\"good\", \"bad\"]" -> Ok(<<PyStr("good"), PyStr("bad")>>)
                [] OTHER -> Ok(<<>>))
        ELSE IF value.t = "list" THEN Ok(value.items)
        ELSE Ok(<<>>)

\* _merge_reviews of assembling_pipeline.py
RootMergeReviews(google_reviews, opentable_reviews, strict) ==
    LET g == RootParseReviews(google_reviews, strict)
        o == RootParseReviews(opentable_reviews, strict)
        wrap(items, src) ==
            LET kept == SelectSeq(items, Truthy)
            IN  [i \in 1..Len(kept) |-> PyDict({"text", "source"}, StrOf(kept[i]), src)]
    IN  IF g.exc # "none" THEN Raise(g.exc)
        ELSE IF o.exc # "none" THEN Raise(o.exc)
        ELSE Ok(wrap(g.val, "google") \o wrap(o.val, "opentable"))

\* float(x) if x and not pd.isna(x) else None
FloatOrNone(x) ==
    IF ~Truthy(x) \/ IsNaScalar(x) THEN Ok(PyNone)
    ELSE IF x.t = "int" THEN Ok(x)
    ELSE IF x.t = "str" /\ x.s = "40.7" THEN Ok(PyInt(40))
    ELSE Raise("ValueError")

\* _get_matching_record(df, match_col, match_value): the row's value of one
\* column, Absent when the table is empty or has no row for the venue
Absent == [t |-> "absent"]

GetMatchingRecord(df, value) ==
    IF df = "absent" THEN Ok(Absent)
    ELSE IF df = "nokey" THEN Raise("KeyError")
    ELSE IF df = "nomatch" THEN Ok(Absent)
    ELSE Ok(value)

\* dict.get(key, default) on the matched record
GetOr(value, default) == IF value = Absent THEN default ELSE value

\* _process_single_venue: the canonical venue, or None after logging the
\* failure.  google_reviews and osm_lat are the matched records' values.
ProcessSingleVenue(which, base, google_reviews, osm_lat, strict) ==
    LET reviews == IF which = "data_integration"
                   THEN MergeReviews(GetOr(google_reviews, PyList(<<>>)), PyList(<<>>), strict)
                   ELSE RootMergeReviews(GetOr(google_reviews, PyList(<<>>)), PyList(<<>>), strict)
        lat == FloatOrNone(GetOr(osm_lat, PyNone))
    IN  IF reviews.exc # "none" \/ lat.exc # "none" THEN PyNone
        ELSE [t |-> "venue", corner_place_id |-> base.cid, reviews |-> reviews.val,
              lat |-> lat.val]

\* clean_processed_data on one venue: clean_value drops the None/NaN entries
\* of the venue's mappings; when pd.isna of a list value has no truth value
\* the handler returns the venue as it was.
CleanVenue(v, strict) ==
    IF BoolIsNa(PyList(v.reviews), strict).exc # "none" THEN v
    ELSE [v EXCEPT !.lat = IF IsNaScalar(v.lat) THEN Absent ELSE v.lat]

CleanProcessedData(data, strict) == [i \in 1..Len(data) |-> CleanVenue(data[i], strict)]

-----------------------------------------------------------------------------
(* process_data of both pipeline files *)

NoFile == <<[t |-> "nofile"]>>

ZeroStats == [total_processed |-> 0, successful |-> 0, errors |-> 0]

PipeIdle ==
    /\ impl = "none"
    /\ base_df = <<>>
    /\ google_df = "absent"
    /\ osm_df = "absent"
    /\ website_json = "absent"
    /\ pc = "idle"
    /\ idx = 0
    /\ processed_venues = <<>>
    /\ stats = ZeroStats
    /\ output_file = NoFile
    /\ error_log = {}

TableStates == {"absent", "rows", "nomatch", "nokey"}

LatValues == {PyNone, PyInt(40), PyStr("n/a")}

CsvReviewValues == {PyNaN, PyStr("Great food"), PyStr("[\"good\", \"bad\"]")}

VenueRows ==
    {rows \in SeqsUpTo([lat : LatValues, greviews : CsvReviewValues], MaxVenues) : TRUE}

BaseTables == {[i \in 1..Len(rows) |-> [cid |-> i, lat |-> rows[i].lat,
                                         greviews |-> rows[i].greviews]] : rows \in VenueRows}

InitPipe ==
    /\ fn = "idle"
    /\ arg = PyNone
    /\ ret = Pending
    /\ numpyStrict \in BOOLEAN
    /\ impl \in {"data_integration", "root"}
    /\ base_df \in BaseTables
    /\ google_df \in TableStates
    /\ osm_df \in TableStates
    /\ website_json \in {"absent", "items"}
    /\ pc = "start"
    /\ idx = 0
    /\ processed_venues = <<>>
    /\ stats = ZeroStats
    /\ output_file = NoFile
    /\ error_log = {}
    /\ StoreIdle

\* the tables are read and the loop starts; the website file is opened
\* without a test for its existence
LoadTables ==
    /\ pc = "start"
    /\ pc' = IF website_json = "absent" THEN "load_failed" ELSE "loop"
    /\ idx' = IF website_json = "absent" THEN idx ELSE 1
    /\ UNCHANGED <<impl, base_df, google_df, osm_df, website_json, processed_venues, stats,
                   output_file, error_log, pureVars, numpyStrict, storeVars>>

\* one iteration of the loop of data_integration/assembling_pipeline.py: the
\* lookups are under the function's try only, whose handler re-raises
ProcessVenueDataIntegration ==
    /\ pc = "loop"
    /\ impl = "data_integration"
    /\ idx <= Len(base_df)
    /\ LET base == base_df[idx]
           g == GetMatchingRecord(google_df, base.greviews)
           o == GetMatchingRecord(osm_df, base.lat)
       IN  IF g.exc # "none" \/ o.exc # "none"
           THEN /\ pc' = "aborted"
                /\ UNCHANGED <<idx, processed_venues, error_log>>
           ELSE LET venue == ProcessSingleVenue(impl, base, g.val, o.val, numpyStrict)
                IN  /\ pc' = "loop"
                    /\ idx' = idx + 1
                    /\ processed_venues' = IF venue # PyNone
                                           THEN Append(processed_venues, venue)
                                           ELSE processed_venues
                    /\ error_log' = IF venue = PyNone THEN error_log \cup {base.cid}
                                    ELSE error_log
    /\ UNCHANGED <<impl, base_df, google_df, osm_df, website_json, stats, output_file, pureVars,
                   numpyStrict, storeVars>>

\* a handler that counts the error and not the venue
CountErrorOnly(st, ok) ==
    IF ok THEN [st EXCEPT !.successful = @ + 1, !.total_processed = @ + 1]
    ELSE [st EXCEPT !.errors = @ + 1]

\* self.stats after one venue, lines 274-286: successful or errors, and
\* total_processed, in the try as in its handler
CountVenue(st, ok) ==
    IF ok THEN [st EXCEPT !.successful = @ + 1, !.total_processed = @ + 1]
    ELSE [st EXCEPT !.errors = @ + 1, !.total_processed = @ + 1]

\* one iteration of the loop of assembling_pipeline.py: the whole body is in
\* a try whose handler counts the venue as an error and continues
ProcessVenueRoot ==
    /\ pc = "loop"
    /\ impl = "root"
    /\ idx <= Len(base_df)
    /\ LET base == base_df[idx]
           g == GetMatchingRecord(google_df, base.greviews)
           o == GetMatchingRecord(osm_df, base.lat)
           venue == IF g.exc # "none" \/ o.exc # "none" THEN PyNone
                    ELSE ProcessSingleVenue(impl, base, g.val, o.val, numpyStrict)
       IN  /\ processed_venues' = IF venue # PyNone THEN Append(processed_venues, venue)
                                  ELSE processed_venues
           /\ error_log' = IF venue = PyNone THEN error_log \cup {base.cid} ELSE error_log
           /\ stats' = CountVenue(stats, venue # PyNone)
    /\ idx' = idx + 1
    /\ UNCHANGED <<impl, base_df, google_df, osm_df, website_json, pc, output_file, pureVars,
                   numpyStrict, storeVars>>

\* after the loop: data_integration/ cleans the list and writes it, the other
\* file writes the list as it is
WriteOutput ==
    /\ pc = "loop"
    /\ idx > Len(base_df)
    /\ output_file' = IF impl = "data_integration"
                      THEN CleanProcessedData(processed_venues, numpyStrict)
                      ELSE processed_venues
    /\ pc' = "done"
    /\ UNCHANGED <<impl, base_df, google_df, osm_df, website_json, idx, processed_venues, stats,
                   error_log, pureVars, numpyStrict, storeVars>>

NextPipe ==
    \/ LoadTables
    \/ ProcessVenueDataIntegration
    \/ ProcessVenueRoot
    \/ WriteOutput

SpecPipe == InitPipe /\ [][NextPipe]_vars

-----------------------------------------------------------------------------
(* Claims about process_data *)

\* reconciling row i raises: in a lookup of its source records, or in the
\* field extraction of _process_single_venue
LookupRaises(i) ==
    \/ GetMatchingRecord(google_df, base_df[i].greviews).exc # "none"
    \/ GetMatchingRecord(osm_df, base_df[i].lat).exc # "none"

ReconcileRaises(i) ==
    \/ LookupRaises(i)
    \/ ProcessSingleVenue(impl, base_df[i],
                          GetMatchingRecord(google_df, base_df[i].greviews).val,
                          GetMatchingRecord(osm_df, base_df[i].lat).val,
                          numpyStrict) = PyNone

WrittenIds == {output_file[i].corner_place_id : i \in 1..Len(output_file)}

\* C1: a venue whose reconciliation raises (in the field extraction or in the
\* lookup of its source records) is logged by name and left out of the
\* output, every other venue is written to the output file, and the run is
\* never aborted.
C1_VenueFailureNeverAbortsRun ==
    /\ pc # "aborted"
    /\ pc = "done" =>
          /\ WrittenIds = {i \in 1..Len(base_df) : ~ReconcileRaises(i)}
          /\ error_log = {i \in 1..Len(base_df) : ReconcileRaises(i)}

-----------------------------------------------------------------------------
(* The pure functions, applied to inputs drawn at Init *)

ReviewStrings ==
    {"", "Great food", "['good', 'bad']", "[\"good\", \"bad\"]", "[\"good\", \"\", null]",
     "[]", "[7]", "42", "null", "{\"text\": \"good\"}"}

ReviewItems ==
    {Review("good", "google"), PyDict({"text"}, "good", ""), PyDict({}, "", ""),
     PyStr("good"), PyStr(""), PyNone, PyNaN, PyInt(0), PyInt(7)}

ReviewInputs ==
    {PyNone, PyNaN, PyInt(7)}
        \cup {PyStr(s) : s \in ReviewStrings}
        \cup {PyList(items) : items \in SeqsUpTo(ReviewItems, MaxListLen)}

PriceAlphabet == {"$", "1", "5", "-", "EN", "LDQ", " "}

PriceInputs ==
    {PyNone, PyInt(0), PyInt(25)}
        \cup {PyChars(cs) : cs \in SeqsUpTo(PriceAlphabet, MaxPriceLen)}

InitPure ==
    /\ fn = "idle"
    /\ arg \in ReviewInputs \cup PriceInputs
    /\ ret = Pending
    /\ numpyStrict \in BOOLEAN
    /\ PipeIdle
    /\ StoreIdle

CallParseReviews ==
    /\ fn = "idle"
    /\ arg \in ReviewInputs
    /\ fn' = "_parse_reviews"
    /\ ret' = ParseReviews(arg, numpyStrict)
    /\ UNCHANGED <<arg, numpyStrict, pipeVars, storeVars>>

CallProcessPriceRange ==
    /\ fn = "idle"
    /\ arg \in PriceInputs
    /\ fn' = "process_price_range"
    /\ ret' = ProcessPriceRange(arg)
    /\ UNCHANGED <<arg, numpyStrict, pipeVars, storeVars>>

NextPure ==
    \/ CallParseReviews
    \/ CallProcessPriceRange

SpecPure == InitPure /\ [][NextPure]_vars

-----------------------------------------------------------------------------
(* Claims about the pure functions *)

\* C4: for every input value, _parse_reviews returns a list without raising,
\* and every element of the list is a mapping with both a text and a source key.
C4_ParseReviewsNeverRaises ==
    fn = "_parse_reviews" =>
        /\ ret.exc = "none"
        /\ \A i \in 1..Len(ret.val) : IsFullReview(ret.val[i])

\* C5: for every non-empty price string, process_price_range returns, without
\* raising, a struct whose original text holds no Unicode dash or quote and
\* whose level is one of 1..4 with the description of that level.
C5_PriceStructForEveryString ==
    (fn = "process_price_range" /\ arg.t = "chars" /\ arg.cs # <<>>) =>
        /\ ret.exc = "none"
        /\ ret.val.t = "price"
        /\ ret.val.original = CleanedPrice(arg.cs)
        /\ \A i \in 1..Len(ret.val.original) : ret.val.original[i] \notin UnicodePunct
        /\ ret.val.level \in 1..4
        /\ ret.val.description = PriceDescription(ret.val.level)

-----------------------------------------------------------------------------
(* The store: save_to_db calls and process_all_places runs *)

InitStore ==
    /\ fn = "idle"
    /\ arg = PyNone
    /\ ret = Pending
    /\ numpyStrict = FALSE
    /\ PipeIdle
    /\ StoreIdleDb /\ BatchIdle /\ GenIdle /\ SearchIdle
    /\ has_pgvector \in BOOLEAN

NextStore ==
    \/ \E inp \in SaveInputs : SaveToDb(inp[1], inp[2], inp[3], inp[4])
    \/ ProcessAllPlacesFetch
    \/ PrepareVenue
    \/ GenServiceOk
    \/ GenServiceFail
    \/ GenSleepDone
    \/ GenExhausted
    \/ StoreVenue
    \/ ProcessAllPlacesReturn

SpecStore == InitStore /\ [][NextStore]_vars

-----------------------------------------------------------------------------
(* Claims about save_to_db *)

\* the row of the last committed save_to_db call
SavedRow == CHOOSE r \in places : r.corner_place_id = last_save.place_data.corner_place_id

\* the rows that held its corner_place_id before the call
RowsBefore ==
    {r \in last_save.places_before :
        r.corner_place_id = last_save.place_data.corner_place_id}

Committed == last_save # NoSave /\ ~last_save.raised

\* C2: after committed save_to_db calls the places table holds exactly one row
\* per corner_place_id saved; a save with a stored corner_place_id adds no row,
\* overwrites the ten mutable columns with the values of the call, keeps the id
\* of the row and sets updated_at to a time not earlier than the previous one.
C2_UpsertOneRowPerCornerPlaceId ==
    /\ {r.corner_place_id : r \in places} = saved_cids
    /\ \A cid \in saved_cids : Cardinality({r \in places : r.corner_place_id = cid}) = 1
    /\ Committed =>
          /\ \A c \in MutableColumns : SavedRow[c] = InsertValues(last_save.place_data)[c]
          /\ RowsBefore # {} =>
                /\ Cardinality(places) = Cardinality(last_save.places_before)
                /\ \A old \in RowsBefore :
                      SavedRow.id = old.id /\ SavedRow.updated_at >= old.updated_at

\* a second committed save of a stored corner_place_id with other values in
\* its columns
C2_SecondSaveReached ==
    /\ Committed
    /\ \E old \in RowsBefore :
          /\ old.name # last_save.place_data.name
          /\ old.tags # last_save.place_data.tags
          /\ old.hours # HoursJson(last_save.place_data.hours)

\* the review rows stored for the venue of the last committed save
StoredReviews == {r \in review_rows : r.place_id = SavedRow.id}

\* C3: after save_to_db persists a venue a second time, the review rows of the
\* venue are exactly the reviews of the second call and no row written by the
\* earlier save remains.
C3_ReviewsReplacedOnSecondSave ==
    (Committed /\ RowsBefore # {}) =>
        /\ Cardinality(StoredReviews) = Len(last_save.place_data.reviews)
        /\ \A r \in StoredReviews :
              \E i \in 1..Len(last_save.place_data.reviews) :
                  r.review_text = last_save.place_data.reviews[i].review_text
        /\ StoredReviews \cap last_save.reviews_before = {}

-----------------------------------------------------------------------------
(* Claims about process_all_places and fetch_places_needing_embeddings *)

FetchedRows ==
    {new_places[i] : i \in 1..Len(new_places)}
        \cup {updated_places[i] : i \in 1..Len(updated_places)}

Logged(place_id, what) == LogEntry(place_id, what) \in run_log

StatusOf(place_id) == (CHOOSE p \in places : p.id = place_id).embedding_status

\* C7: in a run of process_all_places every venue of the batch is processed;
\* a venue whose composed content is under 50 characters gets no embedding and
\* the status failed / "No valid content for embedding"; composing the content
\* of a venue never stops the batch.
C7_ShortContentNeverStopsBatch ==
    (bpc = "returned" /\ last_fetch # NoFetch) =>
        \A p \in FetchedRows :
            /\ \E e \in run_log : e.place_id = p.id /\ e.what # "raised"
            /\ PrepareTextForEmbedding(p, place_reviews[p.id]) = Ok(PyNone) =>
                  /\ Logged(p.id, "no content")
                  /\ ~Logged(p.id, "generate")
                  /\ StatusOf(p.id) = [status |-> "failed",
                                       message |-> "No valid content for embedding"]

\* C10: the fetch selects a venue exactly when it has no embeddings row or its
\* updated_at is later than the last_updated of its embedding; so a venue whose
\* embedding was stored after its last upsert is not selected, whatever status
\* was recorded on it, and a venue upserted after its last embedding is.
C10_SelectedIffNoEmbeddingOrStale ==
    last_fetch # NoFetch =>
        \A p \in last_fetch.places :
            /\ p.id \in last_fetch.selected <=>
                  \/ ~\E e \in last_fetch.embeddings : e.place_id = p.id
                  \/ \E e \in last_fetch.embeddings :
                        e.place_id = p.id /\ p.updated_at > e.last_updated
            /\ p.id \in last_fetch.fresh => p.id \notin last_fetch.selected
            /\ p.id \notin last_fetch.fresh => p.id \in last_fetch.selected

\* a venue with an embedding is upserted with the content it already had, and
\* the next fetch selects it
C10_IdenticalUpsertSelected ==
    /\ Committed
    /\ last_fetch # NoFetch
    /\ \E old \in RowsBefore :
          /\ \A c \in MutableColumns : old[c] = SavedRow[c]
          /\ old.embedding_status # PyNone
          /\ old.embedding_status.status = "success"
          /\ \E e \in last_fetch.embeddings : e.place_id = old.id
          /\ \E p \in last_fetch.places : p.id = old.id /\ p.updated_at > old.updated_at
          /\ old.id \in last_fetch.selected

-----------------------------------------------------------------------------
(* generate_embedding called on its own *)

TextLengths == {60, 200, 25001}

InitRetry ==
    /\ fn = "idle"
    /\ arg = PyNone
    /\ ret = Pending
    /\ numpyStrict = FALSE
    /\ PipeIdle
    /\ StoreIdle

CallGenerateEmbedding(len) ==
    /\ gpc = "idle"
    /\ bpc = "idle"
    /\ n_gen < MaxGenCalls
    /\ EnterGenerateEmbedding(len)
    /\ UNCHANGED <<dbVars, batchVars, pureVars, numpyStrict, pipeVars, searchVars>>

\* the caller takes the pair returned
ReturnToCaller ==
    /\ gpc = "returned"
    /\ bpc = "idle"
    /\ gpc' = "idle"
    /\ UNCHANGED <<attempt, gtext, gresult, service_calls, waits, total_tokens, n_gen>>
    /\ UNCHANGED <<dbVars, batchVars, pureVars, numpyStrict, pipeVars, searchVars>>

NextRetry ==
    \/ \E len \in TextLengths : CallGenerateEmbedding(len)
    \/ GenServiceOk
    \/ GenServiceFail
    \/ GenSleepDone
    \/ GenExhausted
    \/ ReturnToCaller

\* the call runs on: the service answers or raises, the sleep ends
SpecRetry == InitRetry /\ [][NextRetry]_vars /\ WF_vars(GenStep)

\* C6: one call of generate_embedding calls the service at most 3 times,
\* returns the vector at the first successful attempt without a further call,
\* waits 2*2^k seconds after failed attempt k, returns (None, 0) after 3
\* failed attempts, and always terminates.
C6_RetryBoundedBackoffTerminates ==
    /\ [](/\ service_calls <= 3
          /\ \A k \in 1..Len(waits) : waits[k] = 2 * 2^(k - 1)
          /\ \A k \in 2..Len(waits) : waits[k] = 2 * waits[k - 1]
          /\ gpc = "returned" =>
                \/ /\ gresult.embedding.t = "vec"
                   /\ service_calls = Len(waits) + 1
                \/ /\ gresult = [embedding |-> PyNone, tokens |-> 0]
                   /\ service_calls = 3
                   /\ Len(waits) = 3)
    /\ (gpc = "attempt") ~> (gpc = "returned")

\* three attempts failed and the call returned
C6_ExhaustedReached ==
    /\ gpc = "returned"
    /\ waits = <<2, 4, 8>>
    /\ gresult.embedding = PyNone

-----------------------------------------------------------------------------
(* location_extraction.py and generate_embeddings.py:                       *)
(* search_places_with_location                                              *)
(*                                                                         *)
(* A vector is [t |-> "vec", of |-> n], n standing for the text embedded.   *)
(* Similarities are in percent, adjusted similarities in tenths of a        *)
(* percent, so that the boosts 1.5 and 1.2 are the factors 15 and 12 and    *)
(* an unboosted similarity has the factor 10.                               *)

location_boost == 15

adjacent_boost == 12

no_boost == 10

adjacent_limit == 3

few_results == 3

\* ADJACENT_NEIGHBORHOODS.get(neighborhood, [])
GetAdjacentNeighborhoods(name) ==
    IF name \in DOMAIN tables.ADJACENT_NEIGHBORHOODS
    THEN tables.ADJACENT_NEIGHBORHOODS[name] ELSE <<>>

\* the loop over the list that get_adjacent_neighborhoods returned with an
\* append to that list, which is the list of the table itself
TablesAfterAppending(t, name) ==
    [t EXCEPT !.ADJACENT_NEIGHBORHOODS =
        [n \in DOMAIN t.ADJACENT_NEIGHBORHOODS |->
            IF n = name THEN Append(t.ADJACENT_NEIGHBORHOODS[n], name)
            ELSE t.ADJACENT_NEIGHBORHOODS[n]]]

\* the tables after lines 833-856: adjacent_neighborhoods is the list of the
\* table itself, and the loop reads it; the rows are collected in
\* adjacent_results
TablesAfterAdjacent(t, name) == t

(* location_extraction.py: extract_location_from_query.  A query is the     *)
(* sequence of its words, separated by single blanks; the words are letters *)
(* only.  A regular expression is modelled by the words it matches.         *)

\* the landmark of the four that the words of the model can spell
landmark_prefixes == <<<<"central", "park">>>>

\* the prepositions of the six patterns, in their order
location_patterns == <<"in", "near", "around", "at", "by", "within">>

LowerWords(ws) == [i \in 1..Len(ws) |-> Lower(ws[i])]

\* the words that end with the letters of a preposition, and what is left
\* of each before them
Stem(w, prep) ==
    CASE w = prep -> Ok("")
      [] w = "main" /\ prep = "in" -> Ok("ma")
      [] w = "within" /\ prep = "in" -> Ok("with")
      [] w = "great" /\ prep = "at" -> Ok("gre")
      [] OTHER -> Raise("no match")

\* key in text, on whole words; a one-word key is also found inside a word
\* that holds its letters
InsideWord(w, k) == w = k \/ (w = "bottomless" /\ k = "les")

FoundAt(key, text) ==
    {i \in 1..Len(text) :
        /\ i + Len(key) - 1 <= Len(text)
        /\ \A j \in 1..Len(key) : text[i + j - 1] = key[j]}

KeyIn(key, text) ==
    \/ FoundAt(key, text) # {}
    \/ Len(key) = 1 /\ \E i \in 1..Len(text) : InsideWord(text[i], key[1])

\* the first entry of NEIGHBORHOOD_MAPPING whose key is in the text, 0 if none
FirstKeyIn(text) ==
    LET hits == {n \in 1..Len(NEIGHBORHOOD_MAPPING) : KeyIn(NEIGHBORHOOD_MAPPING[n].key, text)}
    IN  IF hits = {} THEN 0 ELSE CHOOSE n \in hits : \A m \in hits : n <= m

\* re.search(prep\s+([a-zA-Z\s']+)(?:\s|$|\.), text): the first word that
\* ends with the preposition and has words after it, 0 if none; the group
\* is everything after that word
SearchPattern(prep, text) ==
    LET hits == {i \in 1..(Len(text) - 1) : Stem(text[i], prep).exc = "none"}
    IN  IF hits = {} THEN 0 ELSE CHOOSE i \in hits : \A k \in hits : i <= k

\* re.sub(pattern, '', query).strip(): the match, found in the query as it
\* was typed, is cut out
SubPattern(prep, words) ==
    LET i == SearchPattern(prep, words)
    IN  IF i = 0 THEN words
        ELSE SubSeq(words, 1, i - 1)
                 \o (IF Stem(words[i], prep).val = "" THEN <<>> ELSE <<Stem(words[i], prep).val>>)

\* the words without every whole occurrence of the key
RECURSIVE RemoveKey(_, _)
RemoveKey(key, text) ==
    IF text = <<>> THEN <<>>
    ELSE IF 1 \in FoundAt(key, text) THEN RemoveKey(key, SubSeq(text, Len(key) + 1, Len(text)))
    ELSE <<text[1]>> \o RemoveKey(key, Tail(text))

Located(words, n, stage, prep) ==
    [query |-> words, location |-> PyStr(NEIGHBORHOOD_MAPPING[n].name), stage |-> stage,
     alias |-> NEIGHBORHOOD_MAPPING[n].key, prep |-> prep]

\* the last line returning the lower-cased query
NotLocatedLowered(words) ==
    [query |-> LowerWords(words), location |-> PyNone, stage |-> "none", alias |-> <<>>,
     prep |-> ""]

\* line 174: return query, None
NotLocated(words) ==
    [query |-> words, location |-> PyNone, stage |-> "none", alias |-> <<>>, prep |-> ""]

\* lines 123-129
LandmarkStage(words) ==
    LET lower == LowerWords(words)
        hits == {l \in 1..Len(landmark_prefixes) :
                    /\ 1 \in FoundAt(landmark_prefixes[l], lower)
                    /\ \E n \in 1..Len(NEIGHBORHOOD_MAPPING) :
                          NEIGHBORHOOD_MAPPING[n].key = landmark_prefixes[l]}
    IN  IF hits = {} THEN NotLocated(words)
        ELSE LET l == CHOOSE h \in hits : \A k \in hits : h <= k
                 n == CHOOSE m \in 1..Len(NEIGHBORHOOD_MAPPING) :
                          NEIGHBORHOOD_MAPPING[m].key = landmark_prefixes[l]
             IN  Located(words, n, "landmark", "")

\* lines 141-151: the first pattern that matches the lower-cased query with
\* an alias in its group
PatternStage(words) ==
    LET lower == LowerWords(words)
        hit(p) == LET i == SearchPattern(location_patterns[p], lower)
                  IN  i # 0 /\ FirstKeyIn(SubSeq(lower, i + 1, Len(lower))) # 0
        hits == {p \in 1..Len(location_patterns) : hit(p)}
    IN  IF hits = {} THEN NotLocated(words)
        ELSE LET p == CHOOSE h \in hits : \A k \in hits : h <= k
                 i == SearchPattern(location_patterns[p], lower)
             IN  Located(SubPattern(location_patterns[p], words),
                         FirstKeyIn(SubSeq(lower, i + 1, Len(lower))), "pattern",
                         location_patterns[p])

\* lines 154-162: ents are the texts of the GPE entities spaCy reports, none
\* when the model is not loaded
EntityStage(words, ents) ==
    LET hits == {e \in 1..Len(ents) : FirstKeyIn(<<Lower(ents[e])>>) # 0}
    IN  IF hits = {} THEN NotLocated(words)
        ELSE LET e == CHOOSE h \in hits : \A k \in hits : h <= k
             IN  Located(SelectSeq(words, LAMBDA w : w # ents[e]),
                         FirstKeyIn(<<Lower(ents[e])>>), "entity", "")

\* lines 165-171: the first alias that is in the lower-cased query as whole
\* words; the query returned is the lower-cased one
AliasStage(words) ==
    LET lower == LowerWords(words)
        hits == {n \in 1..Len(NEIGHBORHOOD_MAPPING) :
                    /\ KeyIn(NEIGHBORHOOD_MAPPING[n].key, lower)
                    /\ FoundAt(NEIGHBORHOOD_MAPPING[n].key, lower) # {}}
    IN  IF hits = {} THEN NotLocated(words)
        ELSE LET n == CHOOSE h \in hits : \A k \in hits : h <= k
             IN  Located(RemoveKey(NEIGHBORHOOD_MAPPING[n].key, lower), n, "alias", "")

\* extract_location_from_query(query) on the words of the query
ExtractLocation(words, ents) ==
    IF words = <<>> THEN NotLocated(words)
    ELSE IF LandmarkStage(words).stage # "none" THEN LandmarkStage(words)
    ELSE IF PatternStage(words).stage # "none" THEN PatternStage(words)
    ELSE IF EntityStage(words, ents).stage # "none" THEN EntityStage(words, ents)
    ELSE AliasStage(words)

\* the words of the queries that the search is given, and their text
QueryWords(q) ==
    CASE q = "pizza in soho" -> <<"pizza", "in", "soho">>
      [] q = "" -> <<>>
      [] OTHER -> <<q>>

RECURSIVE JoinWords(_)
JoinWords(words) ==
    IF words = <<>> THEN ""
    ELSE IF Len(words) = 1 THEN words[1]
    ELSE words[1] \o " " \o JoinWords(Tail(words))

\* extract_location_from_query as search_places_with_location calls it
ExtractLocationFromQuery(q) ==
    LET found == ExtractLocation(QueryWords(q), <<>>)
    IN  [query |-> JoinWords(found.query), location |-> found.location]

\* 1 - (e.embedding <=> query_embedding), in percent
Similarity(q, e) ==
    LET d == IF q.of >= e.of THEN q.of - e.of ELSE e.of - q.of
    IN  IF d > 100 THEN 0 ELSE 100 - d

\* p.neighborhood ILIKE '%name%': for the names of the model containment is
\* equality; a NULL neighborhood matches nothing
ILike(value, name) == value.t = "str" /\ value.s = name

\* the rows of places JOIN embeddings with their adjusted similarity
Scored(ps, es, q, pattern, boost) ==
    {[id |-> pe[1].id, neighborhood |-> pe[1].neighborhood,
      similarity |-> IF pattern # "" /\ ILike(pe[1].neighborhood, pattern)
                     THEN Similarity(q, pe[2].embedding) * boost
                     ELSE Similarity(q, pe[2].embedding) * no_boost] :
        pe \in {x \in ps \X es : x[2].place_id = x[1].id}}

\* ORDER BY similarity DESC LIMIT k: every list the database may answer with,
\* rows of equal similarity in any order
TopRows(scored, k) ==
    LET m == Min(k, Cardinality(scored))
    IN  {rs \in [1..m -> scored] :
            /\ \A i, j \in 1..m : i < j => rs[i] # rs[j] /\ rs[i].similarity >= rs[j].similarity
            /\ \A r \in scored :
                  (\A i \in 1..m : rs[i] # r) =>
                      \A i \in 1..m : rs[i].similarity >= r.similarity}

IdsOf(rs) == {rs[i].id : i \in 1..Len(rs)}

\* for res in adjacent_results: if res[0] not in all_ids: results.append(res);
\* all_ids.add(res[0])
RECURSIVE MergeAdjacent(_, _)
MergeAdjacent(rs, more) ==
    IF more = <<>> THEN rs
    ELSE IF Head(more).id \in IdsOf(rs) THEN MergeAdjacent(rs, Tail(more))
    ELSE MergeAdjacent(Append(rs, Head(more)), Tail(more))

\* the loop over adjacent_neighborhoods followed by the merge: every outcome
\* [results, fetched] after the first i queries, fetched being the ids the
\* queries returned.  Merging the rows of each query in turn gives the list
\* that merging adjacent_results at the end gives.
RECURSIVE AdjacentOutcomes(_, _, _, _, _)
AdjacentOutcomes(rs, ps, es, q, names) ==
    IF names = <<>> THEN {[results |-> rs, fetched |-> {}]}
    ELSE LET before == AdjacentOutcomes(rs, ps, es, q, SubSeq(names, 1, Len(names) - 1))
             rows == TopRows(Scored(ps, es, q, names[Len(names)], adjacent_boost),
                             adjacent_limit)
         IN  {[results |-> MergeAdjacent(b.results, r),
               fetched |-> b.fetched \cup IdsOf(r)] : b \in before, r \in rows}

\* for res in unfiltered_results: if res[0] not in all_ids: results.append(res)
AppendMissing(rs, ids, more) == rs \o SelectSeq(more, LAMBDA r : r.id \notin ids.ids)

\* results.sort(key=lambda x: x[6], reverse=True): stable
SortBySimilarity(rs) ==
    LET rank(i) == Cardinality({j \in 1..Len(rs) : rs[j].similarity > rs[i].similarity})
                   + Cardinality({j \in 1..i : rs[j].similarity = rs[i].similarity})
    IN  [k \in 1..Len(rs) |-> rs[CHOOSE i \in 1..Len(rs) : rank(i) = k]]

\* no cut: the whole list
KeepAll(rs, k) == rs

\* results[:limit] for limit >= 0
Truncate(rs, k) == SubSeq(rs, 1, Min(k, Len(rs)))

SearchDone(rows) ==
    /\ spc' = "returned"
    /\ search_ret' = rows

Queries == {"pizza", "pizza in soho"}

NeighborhoodArgs == {PyNone, PyStr("NoHo")}

\* entry: the has_pgvector check, the extraction, the call of generate_embedding
SearchStart(q, hood, lim) ==
    /\ spc = "idle"
    /\ gpc = "idle"
    /\ bpc \in {"idle", "returned"}
    /\ limit' = lim
    /\ results' = <<>>
    /\ all_ids' = Unbound
    /\ search_log' = [t |-> "search", primary |-> NotFetched, adjacent |-> Unbound,
                      unfiltered |-> NotFetched, raised |-> FALSE]
    /\ IF ~has_pgvector
       THEN /\ query' = q
            /\ neighborhood' = hood
            /\ SearchDone(<<>>)
            /\ UNCHANGED genVars
       ELSE LET extracted == ExtractLocationFromQuery(q)
                found == ~Truthy(hood) /\ Truthy(extracted.location)
            IN  /\ neighborhood' = IF found THEN extracted.location ELSE hood
                /\ query' = IF found THEN extracted.query ELSE q
                /\ EnterGenerateEmbedding(Len(IF found THEN extracted.query ELSE q))
                /\ spc' = "embedding"
                /\ search_ret' = NoVal
    /\ UNCHANGED <<dbVars, batchVars, pureVars, numpyStrict, pipeVars, tables>>

\* generate_embedding returned: the first query and the choice of the stage
SearchPrimary ==
    /\ spc = "embedding"
    /\ gpc = "returned"
    /\ gpc' = "idle"
    /\ attempt' = 0
    /\ gtext' = 0
    /\ service_calls' = 0
    /\ waits' = <<>>
    /\ UNCHANGED <<gresult, total_tokens, n_gen>>
    /\ IF gresult.embedding.t # "vec"
       THEN /\ SearchDone(<<>>)
            /\ UNCHANGED <<results, search_log>>
       ELSE \E rs \in TopRows(Scored(places, embeddings, gresult.embedding,
                                     IF Truthy(neighborhood) THEN neighborhood.s ELSE "",
                                     location_boost), limit) :
                /\ results' = rs
                /\ search_log' = [search_log EXCEPT !.primary = Fetched(rs)]
                /\ UNCHANGED search_ret
                /\ spc' = IF Truthy(neighborhood) /\ Len(rs) < few_results
                          THEN IF GetAdjacentNeighborhoods(neighborhood.s) # <<>>
                               THEN "adjacent" ELSE "unfiltered"
                          ELSE "sort"
    /\ UNCHANGED <<query, neighborhood, limit, all_ids, tables>>
    /\ UNCHANGED <<dbVars, batchVars, pureVars, numpyStrict, pipeVars>>

\* the queries of the adjacent neighborhoods and the merge of their rows
SearchAdjacent ==
    /\ spc = "adjacent"
    /\ \E out \in AdjacentOutcomes(results, places, embeddings, gresult.embedding,
                                   GetAdjacentNeighborhoods(neighborhood.s)) :
           /\ results' = out.results
           /\ all_ids' = Bound(IdsOf(out.results))
           /\ search_log' = [search_log EXCEPT !.adjacent = Bound(out.fetched)]
           /\ spc' = IF Len(out.results) < few_results THEN "unfiltered" ELSE "sort"
    /\ tables' = TablesAfterAdjacent(tables, neighborhood.s)
    /\ UNCHANGED <<query, neighborhood, limit, search_ret>>
    /\ UNCHANGED <<dbVars, batchVars, genVars, pureVars, numpyStrict, pipeVars>>

\* the query without location filter; reading all_ids while it is unbound
\* raises, and the except clause returns []
SearchUnfiltered ==
    /\ spc = "unfiltered"
    /\ \E rs \in TopRows(Scored(places, embeddings, gresult.embedding, "", no_boost),
                         limit) :
           IF rs # <<>> /\ ~all_ids.bound
           THEN /\ search_log' = [search_log EXCEPT !.unfiltered = Fetched(rs),
                                                 !.raised = TRUE]
                /\ SearchDone(<<>>)
                /\ UNCHANGED results
           ELSE /\ search_log' = [search_log EXCEPT !.unfiltered = Fetched(rs)]
                /\ results' = IF rs = <<>> THEN results
                              ELSE AppendMissing(results, all_ids, rs)
                /\ spc' = "sort"
                /\ UNCHANGED search_ret
    /\ UNCHANGED <<query, neighborhood, limit, all_ids, tables>>
    /\ UNCHANGED <<dbVars, batchVars, genVars, pureVars, numpyStrict, pipeVars>>

\* the sort, the cut to limit and the return
SearchReturn ==
    /\ spc = "sort"
    /\ SearchDone(Truncate(SortBySimilarity(results), limit))
    /\ UNCHANGED <<query, neighborhood, limit, results, all_ids, search_log, tables>>
    /\ UNCHANGED <<dbVars, batchVars, genVars, pureVars, numpyStrict, pipeVars>>

\* the contents of the store searched: places 1..n, each with one embedding
StoredHoods == {"SoHo", "NoHo", "Queens"}

StoredTexts == {15, 45}

SearchPlace(id, hood) ==
    NewRow(id, id, [InsertValues(PlaceData("c1", 1, "rich", <<>>))
                        EXCEPT !.neighborhood = PyStr(hood)], 1)

SearchEmbedding(id, of) ==
    [id |-> id, place_id |-> id, embedding |-> [t |-> "vec", of |-> of],
     content_type |-> "combined", last_updated |-> 2]

InitSearch ==
    /\ fn = "idle"
    /\ arg = PyNone
    /\ ret = Pending
    /\ numpyStrict = FALSE
    /\ PipeIdle
    /\ BatchIdle /\ GenIdle /\ SearchIdle
    /\ has_pgvector \in BOOLEAN
    /\ \E n \in 0..MaxPlaces :
          \E hoods \in [1..n -> StoredHoods], texts \in [1..n -> StoredTexts] :
              /\ places = {SearchPlace(i, hoods[i]) : i \in 1..n}
              /\ embeddings = {SearchEmbedding(i, texts[i]) : i \in 1..n}
              /\ place_seq = n
              /\ emb_seq = n
    /\ review_rows = {}
    /\ review_seq = 0
    /\ now = 2
    /\ n_saves = 0
    /\ last_save = NoSave
    /\ saved_cids = {}
    /\ store_ret = NoVal
    /\ fresh = {}

NextSearch ==
    \/ \E q \in Queries, hood \in NeighborhoodArgs, lim \in 1..MaxLimit :
           SearchStart(q, hood, lim)
    \/ GenServiceOk
    \/ GenServiceFail
    \/ GenSleepDone
    \/ GenExhausted
    \/ SearchPrimary
    \/ SearchAdjacent
    \/ SearchUnfiltered
    \/ SearchReturn

SpecSearch == InitSearch /\ [][NextSearch]_vars

-----------------------------------------------------------------------------
(* Claims about search_places_with_location *)

\* a search with a neighborhood whose first query returned fewer than 3 rows
FewPrimaryRows ==
    /\ spc = "returned"
    /\ search_log.t = "search"
    /\ search_log.primary.run
    /\ Truthy(neighborhood)
    /\ Len(search_log.primary.rows) < 3

\* the ids in the results once the adjacent neighborhoods were queried
IdsAfterAdjacent == IdsOf(search_log.primary.rows) \cup search_log.adjacent.ids

\* C8: with a neighborhood N and fewer than 3 rows from the first query, the
\* search queries the neighborhoods adjacent to N and appends every venue not
\* yet in the results; when the results are still fewer than 3, also when N
\* has no adjacent neighborhoods, it runs the unfiltered query, appends every
\* venue still missing and returns the merged results, not an empty list.
C8_FallbackReturnsMergedResults ==
    FewPrimaryRows =>
        /\ GetAdjacentNeighborhoods(neighborhood.s) # <<>> =>
              /\ search_log.adjacent.bound
              /\ search_log.adjacent.ids \subseteq IdsOf(results)
        /\ Cardinality(IdsAfterAdjacent) < 3 =>
              /\ search_log.unfiltered.run
              /\ IdsOf(search_log.unfiltered.rows) \subseteq IdsOf(results)
        /\ search_ret = Truncate(SortBySimilarity(results), limit)

-----------------------------------------------------------------------------
(* The store without vector storage: has_pgvector is false.  Venues are     *)
(* saved, process_all_places runs, store_embedding is called directly and   *)
(* a search is made.                                                        *)

\* store_embedding(place_id, embedding) called on its own for a stored place
CallStoreEmbedding(place_id, embedding) ==
    /\ bpc \in {"idle", "returned"}
    /\ gpc = "idle"
    /\ LET ts == now + 1
           stored == StoreEmbedding(embeddings, place_id, embedding, has_pgvector,
                                    emb_seq + 1, ts)
       IN  /\ embeddings' = stored.rows
           /\ emb_seq' = IF Cardinality(stored.rows) > Cardinality(embeddings)
                         THEN emb_seq + 1 ELSE emb_seq
           /\ now' = IF has_pgvector THEN ts ELSE now
           /\ fresh' = IF stored.success THEN fresh \cup {place_id} ELSE fresh
           /\ store_ret' = PyBool(stored.success)
    /\ UNCHANGED <<places, review_rows, place_seq, review_seq, has_pgvector, n_saves,
                   last_save, saved_cids>>
    /\ UNCHANGED <<batchVars, genVars, pureVars, numpyStrict, pipeVars, searchVars>>

Vectors == {[t |-> "vec", of |-> 60]}

\* the venues saved here: one with a review, its second version without
\* reviews, and a second venue with sparse data
NoVectorSaves ==
    {<<"c1", 1, "rich", ReviewLists_One>>, <<"c1", 2, "priced", ReviewLists_None>>,
     <<"c2", 1, "na", ReviewLists_None>>}

InitNoVector ==
    /\ fn = "idle"
    /\ arg = PyNone
    /\ ret = Pending
    /\ numpyStrict = FALSE
    /\ PipeIdle
    /\ StoreIdleDb /\ BatchIdle /\ GenIdle /\ SearchIdle
    /\ has_pgvector = FALSE

NextNoVector ==
    \/ \E inp \in NoVectorSaves : SaveToDb(inp[1], inp[2], inp[3], inp[4])
    \/ \E p \in places, v \in Vectors : CallStoreEmbedding(p.id, v)
    \/ \E q \in Queries, hood \in NeighborhoodArgs : SearchStart(q, hood, MaxLimit)
    \/ ProcessAllPlacesFetch
    \/ PrepareVenue
    \/ GenServiceOk
    \/ GenServiceFail
    \/ GenSleepDone
    \/ GenExhausted
    \/ StoreVenue
    \/ ProcessAllPlacesReturn

SpecNoVector == InitNoVector /\ [][NextNoVector]_vars

\* C11: without vector storage every store_embedding call writes nothing and
\* returns False, a search returns the empty list, and save_to_db still
\* stores the venue and its reviews.
C11_NoVectorStorageDegrades ==
    /\ embeddings = {}
    /\ emb_seq = 0
    /\ store_ret \in {NoVal, PyBool(FALSE)}
    /\ \A e \in run_log : e.what # "stored"
    /\ spc = "returned" => search_ret = <<>>
    /\ (last_save # NoSave /\ ~ReviewDataRaises(last_save.place_data.reviews)) =>
          /\ ~last_save.raised
          /\ \A c \in MutableColumns : SavedRow[c] = InsertValues(last_save.place_data)[c]
          /\ Cardinality(review_rows \ last_save.reviews_before)
                 = Len(last_save.place_data.reviews)

\* a venue with a review was saved, store_embedding was called for it and
\* by the batch, and a search was made
C11_AllCalledWithoutVector ==
    /\ ~has_pgvector
    /\ store_ret = PyBool(FALSE)
    /\ \E e \in run_log : e.what = "not stored"
    /\ spc = "returned"
    /\ Committed
    /\ review_rows # {}

-----------------------------------------------------------------------------
(* data_integration/assembling_pipeline.py: the fields of one venue.  A     *)
(* string that the code splits is a sequence of pieces: words, "," and " ". *)

\* s.split(sep)
RECURSIVE SplitOn(_, _)
SplitOn(cs, sep) ==
    LET hits == {i \in 1..Len(cs) : cs[i] = sep}
    IN  IF hits = {} THEN <<cs>>
        ELSE LET i == CHOOSE h \in hits : \A k \in hits : h <= k
             IN  <<SubSeq(cs, 1, i - 1)>> \o SplitOn(SubSeq(cs, i + 1, Len(cs)), sep)

\* the pieces of a string put together again
RECURSIVE Joined(_)
Joined(cs) == IF cs = <<>> THEN "" ELSE cs[1] \o Joined(Tail(cs))

\* [k.strip() for k in s.split(',') if k.strip()]
CommaList(cs) ==
    LET parts == SplitOn(cs, ",")
        kept == SelectSeq(parts, LAMBDA part : Strip(part) # <<>>)
    IN  [i \in 1..Len(kept) |-> PyStr(Joined(Strip(kept[i])))]

\* json.loads(tags.replace('{', '[').replace('}', ']')) on the tag strings
JsonTagList(s) ==
    CASE s = "{\"cozy\"}" -> Ok(PyList(<<PyStr("cozy")>>))
      [] s = "{}" -> Ok(PyList(<<>>))
      [] OTHER -> Raise("JSONDecodeError")

\* lines 129-139: tags = base_data.get('tags', []), made a list when it is a
\* string or None
BaseTags(tags) ==
    IF tags.t = "str"
    THEN LET parsed == JsonTagList(tags.s)
         IN  IF parsed.exc = "none" THEN parsed.val ELSE PyList(<<tags>>)
    ELSE IF tags.t = "none" THEN PyList(<<>>)
    ELSE tags

\* lines 141-147
MetaKeywords(meta_keywords) ==
    IF meta_keywords.t = "chars" THEN PyList(CommaList(meta_keywords.cs))
    ELSE IF meta_keywords.t = "none" THEN PyList(<<>>)
    ELSE meta_keywords

\* lines 150-151
ExtendedTags(tags, meta_keywords) ==
    IF meta_keywords.t = "list"
    THEN IF tags.t = "list" THEN PyList(tags.items \o meta_keywords.items) ELSE meta_keywords
    ELSE tags

\* metadata.tags of the processed venue
VenueTags(base_tags, meta_keywords) ==
    ExtendedTags(BaseTags(GetOr(base_tags, PyList(<<>>))),
                 MetaKeywords(GetOr(meta_keywords, PyNone)))

\* lines 157-163: metadata.cuisines
VenueCuisines(cuisine) ==
    LET cuisine_str == GetOr(cuisine, PyNone)
    IN  IF ~Truthy(cuisine_str) THEN PyList(<<>>)
        ELSE IF cuisine_str.t = "chars" THEN PyList(CommaList(cuisine_str.cs))
        ELSE PyList(<<cuisine_str>>)

(* postgres_migration.py: extract_tags on the gathered place_data.  The     *)
(* tags column is the text of the CSV cell, extratags the parsed mapping's  *)
(* cuisine entry.                                                           *)

\* tag_str.strip('{}').split(','), each piece stripped of quotes and blanks
TagCellWords(s) ==
    CASE s = "{cozy}" -> {"cozy"}
      [] s = "{\"cozy\"}" -> {"cozy"}
      [] s = "{Cozy,wine}" -> {"Cozy", "wine"}
      [] OTHER -> {}

StrItems(v) == {v.items[i].s : i \in {j \in 1..Len(v.items) : v.items[j].t = "str"}}

\* extract_tags(place_data): the set behind the returned list
ExtractTags(tags, extratags_cuisine, category) ==
    LET own == IF tags = Absent \/ ~Truthy(tags) THEN {}
               ELSE IF tags.t = "str" THEN TagCellWords(tags.s)
               ELSE IF tags.t = "list" THEN StrItems(tags) \ {""}
               ELSE {}
        osm == IF extratags_cuisine # Absent /\ extratags_cuisine.t = "str"
                  /\ Truthy(extratags_cuisine)
               THEN {extratags_cuisine.s} ELSE {}
        cat == IF category # Absent /\ Truthy(category) THEN {category} ELSE {}
    IN  IF \E c \in cat : c.t # "str" THEN Raise("AttributeError")
        ELSE Ok({Lower(w) : w \in (own \cup osm \cup {c.s : c \in cat}) \ {""}})

(* the remaining fields of _process_single_venue *)

\* a or b
PyOr(a, b) == IF Truthy(a) THEN a ELSE b

\* line 173: google_data.get('category') or opentable_data.get('cuisine') or ''
Category(google_category, cuisine) ==
    PyOr(PyOr(GetOr(google_category, PyNone), GetOr(cuisine, PyNone)), PyStr(""))

\* x[0]
FirstOf(x) ==
    CASE x.t = "list" -> Ok(x.items[1])
      [] x.t = "chars" -> Ok(PyStr(x.cs[1]))
      [] x.t = "str" -> Ok(PyStr(IF x.s = "{cozy}" \/ x.s = "{\"cozy\"}" THEN "{" ELSE "?"))
      [] OTHER -> Raise("TypeError")

\* assembling_pipeline.py lines 155-159: ... or (base_data.get('tags', [])[0]
\* if base_data.get('tags') else None)
RootCategory(google_category, cuisine, base_tags) ==
    LET first == PyOr(GetOr(google_category, PyNone), GetOr(cuisine, PyNone))
    IN  IF Truthy(first) THEN Ok(first)
        ELSE IF Truthy(GetOr(base_tags, PyNone)) THEN FirstOf(base_tags)
        ELSE Ok(PyNone)

EmptyDict == PyDict({}, "", "")

HoursFrom(source, hours) == [t |-> "hours", source |-> source, hours |-> hours]

\* _format_hours(google_hours, osm_hours)
FormatHours(google_hours, osm_hours) ==
    IF IsNaScalar(google_hours) /\ IsNaScalar(osm_hours) THEN EmptyDict
    ELSE IF ~Truthy(google_hours) /\ Truthy(osm_hours) /\ ~IsNaScalar(osm_hours)
    THEN HoursFrom("osm", osm_hours)
    ELSE IF Truthy(google_hours) /\ ~IsNaScalar(google_hours)
    THEN HoursFrom("google", google_hours)
    ELSE EmptyDict

\* lines 124 and 166: _format_hours(google_data.get('hours'),
\* _get_safe_value(osm_data, 'opening_hours', '')) or {}
VenueHours(google_hours, opening_hours) ==
    FormatHours(GetOr(google_hours, PyNone), GetOr(opening_hours, PyStr("")))

\* _format_hours(hours_data) of assembling_pipeline.py on the cells of the
\* model, none of which is the text of a JSON mapping
RootFormatHours(hours_data) ==
    IF ~Truthy(hours_data) THEN PyNone
    ELSE IF hours_data.t = "str" THEN HoursFrom("raw_hours", hours_data)
    ELSE PyNone

\* _process_single_venue of either file on the sources of one venue: the
\* processed mapping, or None after the handler logged the exception
ReconcileVenue(which, src, strict) ==
    LET merged == IF which = "data_integration"
                  THEN MergeReviews(GetOr(src.google_reviews, PyList(<<>>)),
                                    GetOr(src.opentable_reviews, PyList(<<>>)), strict)
                  ELSE RootMergeReviews(GetOr(src.google_reviews, PyList(<<>>)),
                                        GetOr(src.opentable_reviews, PyList(<<>>)), strict)
        lat == FloatOrNone(GetOr(src.lat, PyNone))
        lon == FloatOrNone(GetOr(src.lon, PyNone))
        category == IF which = "data_integration"
                    THEN Ok(Category(src.category, src.cuisine))
                    ELSE RootCategory(src.category, src.cuisine, src.tags)
        hours == IF which = "data_integration"
                 THEN VenueHours(src.hours, src.opening_hours)
                 ELSE RootFormatHours(GetOr(src.hours, PyNone))
        tags == IF which = "data_integration"
                THEN VenueTags(src.tags, src.meta_keywords)
                ELSE GetOr(src.tags, PyList(<<>>))
        cuisines == IF which = "data_integration"
                    THEN VenueCuisines(src.cuisine)
                    ELSE PyList(SelectSeq(<<GetOr(src.cuisine, PyNone)>>, Truthy))
    IN  IF merged.exc # "none" \/ lat.exc # "none" \/ lon.exc # "none"
           \/ category.exc # "none"
        THEN PyNone
        ELSE [t |-> "processed", category |-> category.val, hours |-> hours,
              reviews |-> merged.val, lat |-> lat.val, lon |-> lon.val,
              tags |-> tags, cuisines |-> cuisines]

-----------------------------------------------------------------------------
(* data_integration/assembling_pipeline.py: clean_processed_data.  A venue  *)
(* is a mapping [t |-> "map", kv |-> <keys to values>]; the mappings of a   *)
(* review and of the hours hold strings only and are leaves.                *)

PyMap(kv) == [t |-> "map", kv |-> kv]

IsMapping(v) == v.t \in {"map", "dict", "hours"}

HasKey(m, k) == k \in DOMAIN m.kv

\* the except branch of clean_value: value if not pd.isna(value) else ''
CleanValueHandler(value, strict) ==
    LET na == BoolIsNa(value, strict)
    IN  IF na.exc # "none" THEN Raise(na.exc)
        ELSE IF na.val THEN Ok(PyStr(""))
        ELSE Ok(value)

\* clean_value(value): an exception in a comprehension, from the truth value
\* of pd.isna(item) or out of a nested call, is handled by the call itself
RECURSIVE CleanValue(_, _)
CleanValue(value, strict) ==
    IF value.t = "list"
    THEN LET idxs == 1..Len(value.items)
         IN  IF \E i \in idxs : BoolIsNa(value.items[i], strict).exc # "none"
             THEN CleanValueHandler(value, strict)
             ELSE LET kept == SelectSeq(value.items, LAMBDA x : ~BoolIsNa(x, strict).val)
                      cleaned == [i \in 1..Len(kept) |-> CleanValue(kept[i], strict)]
                  IN  IF \E i \in 1..Len(kept) : cleaned[i].exc # "none"
                      THEN CleanValueHandler(value, strict)
                      ELSE Ok(PyList([i \in 1..Len(kept) |-> cleaned[i].val]))
    ELSE IF value.t = "map"
    THEN LET keys == DOMAIN value.kv
         IN  IF \E k \in keys : BoolIsNa(value.kv[k], strict).exc # "none"
             THEN CleanValueHandler(value, strict)
             ELSE LET kept == {k \in keys : ~BoolIsNa(value.kv[k], strict).val}
                      cleaned == [k \in kept |-> CleanValue(value.kv[k], strict)]
                  IN  IF \E k \in kept : cleaned[k].exc # "none"
                      THEN CleanValueHandler(value, strict)
                      ELSE Ok(PyMap([k \in kept |-> cleaned[k].val]))
    ELSE IF value.t = "bool" THEN Ok(value)
    ELSE IF IsNaScalar(value) THEN Ok(IF value.t = "nan" THEN PyStr("") ELSE PyList(<<>>))
    ELSE Ok(value)

\* every entry rewritten as {'text': str(entry), 'source': 'unknown'}
WrapEveryReview(reviews) ==
    IF reviews.t # "list" THEN PyList(<<>>)
    ELSE PyList([i \in 1..Len(reviews.items) |-> Review(StrOf(reviews.items[i]), "unknown")])

\* lines 236-246: the reviews of the cleaned venue
StructuredReviews(reviews) ==
    IF reviews.t # "list" THEN PyList(<<>>)
    ELSE LET kept == SelectSeq(reviews.items, LAMBDA r : IsFullReview(r) \/ r.t = "str")
         IN  PyList([i \in 1..Len(kept) |->
                        IF IsFullReview(kept[i]) THEN kept[i]
                        ELSE Review(kept[i].s, "unknown")])

\* lines 249-261: the metadata of the cleaned venue
StructuredMetadata(metadata) ==
    IF metadata.t # "map" THEN PyMap(<<>>)
    ELSE PyMap([k \in DOMAIN metadata.kv |->
                  IF k = "cuisines"
                  THEN (IF metadata.kv[k].t # "list" THEN PyList(<<>>)
                        ELSE PyList(SelectSeq(metadata.kv[k].items, Truthy)))
                  ELSE IF k = "tags" /\ metadata.kv[k].t # "list" THEN PyList(<<>>)
                  ELSE metadata.kv[k]])

\* lines 232-271 for one venue
CleanedVenue(venue, strict) ==
    LET cleaned == CleanValue(venue, strict).val
    IN  PyMap([k \in DOMAIN cleaned.kv |->
                 CASE k = "reviews" -> StructuredReviews(cleaned.kv[k])
                   [] k = "metadata" -> StructuredMetadata(cleaned.kv[k])
                   [] k \in {"hours", "location"} ->
                        (IF IsMapping(cleaned.kv[k]) THEN cleaned.kv[k] ELSE PyMap(<<>>))
                   [] OTHER -> cleaned.kv[k]])

\* clean_processed_data(data)
CleanedVenues(data, strict) ==
    LET dicts == SelectSeq(data, LAMBDA v : v.t = "map")
    IN  [i \in 1..Len(dicts) |-> CleanedVenue(dicts[i], strict)]

\* the mapping _process_single_venue returns, as the venue of the list
VenueOf(p) ==
    PyMap([category |-> p.category, hours |-> p.hours, reviews |-> PyList(p.reviews),
           location |-> PyMap([lat |-> p.lat, lon |-> p.lon]),
           metadata |-> PyMap([tags |-> p.tags, cuisines |-> p.cuisines])])


-----------------------------------------------------------------------------
(* The venue functions, applied to sources drawn at Init *)

TagValues ==
    {Absent, PyNone, PyNaN, PyStr("{cozy}"), PyList(<<PyStr("cozy")>>),
     PyList(<<PyStr("Cozy"), PyStr("wine")>>)}

KeywordValues ==
    {Absent, PyNone, PyChars(<<"wine", ",", " ", "date night">>),
     PyChars(<<"cozy", ",", " ", ",", "Bar">>), PyList(<<PyStr("wine")>>)}

CuisineValues ==
    {Absent, PyNaN, PyChars(<<>>), PyChars(<<"Italian">>),
     PyChars(<<"Italian", ",", " ", "wine">>)}

OsmCuisineValues == {Absent, PyStr("pizza")}

CategoryValues == {Absent, PyNaN, PyStr(""), PyStr("Bar")}

HoursValues == {Absent, PyNone, PyNaN, PyStr(""), PyStr("Mo-Su 10:00-22:00")}

MergeValues ==
    {Absent, PyNone, PyNaN, PyStr(""), PyStr("  "), PyStr("Great food"),
     PyStr("[\"good\", \"bad\"]"), PyList(<<>>), PyList(<<Review("good", "yelp")>>),
     PyList(<<Review("  ", "google")>>), PyList(<<PyStr("good"), PyStr("bad")>>)}

CoordinateValues ==
    {Absent, PyNone, PyNaN, PyInt(0), PyInt(40), PyStr("40.7"), PyStr("n/a")}

\* the sources of one venue are the values of the matched records' columns,
\* Absent for a column of a record that was not matched; here a venue with
\* one base tag, a Google category and coordinates
PlainSources ==
    [t |-> "sources", tags |-> PyList(<<PyStr("cozy")>>), meta_keywords |-> Absent,
     cuisine |-> Absent, osm_cuisine |-> Absent, category |-> PyStr("Bar"), hours |-> Absent,
     opening_hours |-> Absent, google_reviews |-> Absent, opentable_reviews |-> Absent,
     lat |-> PyInt(40), lon |-> PyInt(40)]

\* venues with none, one or two reviews of each source, with and without a
\* NaN category and a null latitude
MixedSources ==
    {[PlainSources EXCEPT !.google_reviews = v[1], !.opentable_reviews = v[2],
                          !.category = v[3], !.lat = v[4]] :
        v \in {Absent, PyStr("Great food"), PyStr("[\"good\", \"bad\"]")}
              \X {Absent, PyStr("Great food"), PyStr("[\"good\", \"bad\"]")}
              \X {PyNaN, PyStr("Bar")} \X {PyNone, PyInt(40)}}

\* the sources of the model: the plain venue with one group of columns varied
SourceInputs ==
    {[PlainSources EXCEPT !.tags = v[1], !.meta_keywords = v[2], !.cuisine = v[3],
                          !.osm_cuisine = v[4], !.category = v[5]] :
        v \in TagValues \X KeywordValues \X CuisineValues \X OsmCuisineValues \X CategoryValues}
    \cup {[PlainSources EXCEPT !.hours = v[1], !.opening_hours = v[2]] :
            v \in HoursValues \X HoursValues}
    \cup {[PlainSources EXCEPT !.google_reviews = v[1], !.opentable_reviews = v[2]] :
            v \in MergeValues \X MergeValues}
    \cup {[PlainSources EXCEPT !.lat = v[1], !.lon = v[2]] :
            v \in CoordinateValues \X CoordinateValues}
    \cup MixedSources

ArgPair(what, a, b) == [t |-> what, a |-> a, b |-> b]

HoursPairs ==
    {ArgPair("hours", v[1], v[2]) : v \in (HoursValues \ {Absent}) \X (HoursValues \ {Absent})}

ReviewPairs ==
    {ArgPair("reviews", v[1], v[2]) : v \in (MergeValues \ {Absent}) \X (MergeValues \ {Absent})}

\* the place_data that migrate_data hands to extract_tags
PlaceTagInputs ==
    {[t |-> "place_data", tags |-> v[1], extratags_cuisine |-> v[2], category |-> v[3],
      meta_keywords |-> v[4], cuisine |-> v[5]] :
        v \in {PyNone, PyStr("{cozy}"), PyStr("{Cozy,wine}"), PyList(<<PyStr("cozy")>>)}
              \X OsmCuisineValues \X {Absent, PyNone, PyStr("Bar")}
              \X {Absent, PyChars(<<"wine", ",", " ", "date night">>)}
              \X {Absent, PyChars(<<"Italian">>)}}

\* the venues _process_single_venue returns for the sources of the model
CanonicalVenues ==
    {VenueOf(ReconcileVenue("data_integration", src, FALSE)) :
        src \in {x \in SourceInputs : ReconcileVenue("data_integration", x, FALSE) # PyNone}}

\* the venues of the mixed sources
MixedVenues ==
    {VenueOf(ReconcileVenue("data_integration", src, FALSE)) : src \in MixedSources}

MalformedReviews ==
    {PyList(<<Review("good", "google")>>), PyList(<<PyStr("good")>>), PyList(<<PyInt(7)>>),
     PyList(<<PyDict({"text"}, "good", "")>>), PyList(<<PyDict({}, "", "")>>),
     PyList(<<PyStr("good"), PyInt(7)>>), PyList(<<Review("good", "google"), PyNone>>),
     PyStr("Great food"), PyNone}

\* venues whose reviews, hours, location or metadata are not as
\* _process_single_venue builds them
MalformedVenues ==
    {PyMap([category |-> v[1], hours |-> v[2], reviews |-> v[3], location |-> v[4],
            metadata |-> v[5]]) :
        v \in {PyStr("Bar"), PyNaN}
              \X {EmptyDict, PyStr("Mo-Su 10:00-22:00"), PyNone}
              \X MalformedReviews
              \X {PyMap([lat |-> PyInt(40), lon |-> PyNone]), PyStr("SoHo"), PyNaN}
              \X {PyMap([tags |-> PyList(<<>>), cuisines |-> PyList(<<PyStr("")>>)]),
                  PyMap([tags |-> PyStr("cozy"), cuisines |-> PyNaN]),
                  PyList(<<>>), PyNone}}

VenueList(canonical, data) == [t |-> "venues", canonical |-> canonical, data |-> data]

CleanInputs ==
    {VenueList(TRUE, <<v>>) : v \in CanonicalVenues}
    \cup {VenueList(TRUE, <<v, w>>) : v \in MixedVenues, w \in MixedVenues}
    \cup {VenueList(FALSE, <<v>>) : v \in MalformedVenues}
    \cup {VenueList(FALSE, <<PyNone, v>>) : v \in MixedVenues}

InitVenue ==
    /\ fn = "idle"
    /\ arg \in SourceInputs \cup HoursPairs \cup ReviewPairs \cup PlaceTagInputs \cup CleanInputs
    /\ ret = Pending
    /\ numpyStrict \in BOOLEAN
    /\ PipeIdle
    /\ StoreIdle

Implementations == {"data_integration", "assembling_pipeline"}

CallProcessSingleVenue(which) ==
    /\ fn = "idle"
    /\ arg.t = "sources"
    /\ fn' = which \o "._process_single_venue"
    /\ ret' = Ok(ReconcileVenue(which, arg, numpyStrict))
    /\ UNCHANGED <<arg, numpyStrict, pipeVars, storeVars>>

CallFormatHours ==
    /\ fn = "idle"
    /\ arg.t = "hours"
    /\ fn' = "_format_hours"
    /\ ret' = Ok(FormatHours(arg.a, arg.b))
    /\ UNCHANGED <<arg, numpyStrict, pipeVars, storeVars>>

CallMergeReviews ==
    /\ fn = "idle"
    /\ arg.t = "reviews"
    /\ fn' = "_merge_reviews"
    /\ ret' = MergeReviews(arg.a, arg.b, numpyStrict)
    /\ UNCHANGED <<arg, numpyStrict, pipeVars, storeVars>>

CallExtractTags ==
    /\ fn = "idle"
    /\ arg.t = "place_data"
    /\ fn' = "extract_tags"
    /\ ret' = ExtractTags(arg.tags, arg.extratags_cuisine, arg.category)
    /\ UNCHANGED <<arg, numpyStrict, pipeVars, storeVars>>

CallCleanProcessedData ==
    /\ fn = "idle"
    /\ arg.t = "venues"
    /\ fn' = "clean_processed_data"
    /\ ret' = Ok(CleanedVenues(arg.data, numpyStrict))
    /\ UNCHANGED <<arg, numpyStrict, pipeVars, storeVars>>

\* clean_processed_data on the list it returned
CallCleanAgain ==
    /\ fn = "clean_processed_data"
    /\ fn' = "clean_processed_data again"
    /\ ret' = Ok(CleanedVenues(ret.val, numpyStrict))
    /\ UNCHANGED <<arg, numpyStrict, pipeVars, storeVars>>

NextVenue ==
    \/ \E which \in Implementations : CallProcessSingleVenue(which)
    \/ CallFormatHours
    \/ CallMergeReviews
    \/ CallExtractTags
    \/ CallCleanProcessedData
    \/ CallCleanAgain

SpecVenue == InitVenue /\ [][NextVenue]_vars

-----------------------------------------------------------------------------
(* Claims about the fields of a venue *)

\* the words of a list of strings, and of a comma-separated string
WordsOf(v) ==
    IF v = Absent THEN {}
    ELSE IF v.t = "list" THEN StrItems(v)
    ELSE IF v.t = "chars" THEN {w.s : w \in {CommaList(v.cs)[i] : i \in 1..Len(CommaList(v.cs))}}
    ELSE IF v.t = "str" /\ v.s # ""
    THEN (IF TagCellWords(v.s) # {} THEN TagCellWords(v.s) ELSE {v.s})
    ELSE {}

\* the union the tags are to be: base tags, meta-keywords, OpenTable cuisine
\* and OSM cuisine, lower-cased
TagUnion(tags, meta_keywords, cuisine, osm_cuisine) ==
    {Lower(w) : w \in WordsOf(tags) \cup WordsOf(meta_keywords) \cup WordsOf(cuisine)
                       \cup WordsOf(osm_cuisine)}

\* the entries of metadata.tags and metadata.cuisines of a processed venue
TagEntries(venue) ==
    (IF venue.tags.t = "list" THEN venue.tags.items ELSE <<>>) \o venue.cuisines.items

\* C12: the tags and cuisines of a processed venue, and the tags that
\* extract_tags returns, are the union of the base tags, the comma-split
\* meta-keywords, the comma-split OpenTable cuisine and the OSM cuisine, and
\* no two entries are equal after lower-casing.
C12_TagsAreUnionOfSources ==
    /\ (fn = "data_integration._process_single_venue" /\ ret.val # PyNone) =>
          LET entries == TagEntries(ret.val)
          IN  /\ {Lower(StrOf(entries[i])) : i \in 1..Len(entries)}
                    = TagUnion(arg.tags, arg.meta_keywords, arg.cuisine, arg.osm_cuisine)
              /\ \A i, j \in 1..Len(entries) :
                    Lower(StrOf(entries[i])) = Lower(StrOf(entries[j])) => i = j
    /\ (fn = "extract_tags" /\ ret.exc = "none") =>
          ret.val = TagUnion(arg.tags, arg.meta_keywords, arg.cuisine, arg.extratags_cuisine)

\* a source value that carries something: not missing, null, NaN or empty
NonEmpty(v) == v \notin {Absent, PyNone, PyNaN, PyStr(""), PyChars(<<>>), PyList(<<>>)}

\* the category by the fixed order Google category, OpenTable cuisine, first
\* base tag; PyNone when all three are empty
FirstNonEmptyCategory(src) ==
    IF NonEmpty(src.category) THEN src.category
    ELSE IF NonEmpty(src.cuisine) THEN src.cuisine
    ELSE IF NonEmpty(src.tags) THEN src.tags.items[1]
    ELSE PyNone

\* C13: the category of a processed venue is the first non-empty of the
\* Google category, the OpenTable cuisine and the first base tag, and it is
\* empty only when all three are empty (base tags given as a list).
C13_CategoryFirstNonEmpty ==
    (/\ fn \in {which \o "._process_single_venue" : which \in Implementations}
     /\ ret.val # PyNone
     /\ arg.tags.t # "str") =>
        IF FirstNonEmptyCategory(arg) = PyNone
        THEN ret.val.category \in {PyNone, PyStr("")}
        ELSE ret.val.category = FirstNonEmptyCategory(arg)

\* hours that a source has
HoursPresent(v) == v \notin {Absent, PyNone, PyNaN, PyStr("")}

\* what the hours are to be for a pair of source values
HoursByPrecedence(google_hours, osm_hours) ==
    IF HoursPresent(google_hours) THEN HoursFrom("google", google_hours)
    ELSE IF HoursPresent(osm_hours) THEN HoursFrom("osm", osm_hours)
    ELSE EmptyDict

\* C14: _format_hours, called directly or for a venue, returns the Google
\* hours tagged 'google' when they are present, otherwise the OSM hours
\* tagged 'osm' when those are present, and the empty mapping only when
\* neither source has hours.
C14_HoursGoogleThenOsm ==
    /\ fn = "_format_hours" => ret.val = HoursByPrecedence(arg.a, arg.b)
    /\ (fn = "data_integration._process_single_venue" /\ ret.val # PyNone) =>
          ret.val.hours = HoursByPrecedence(arg.hours, arg.opening_hours)

\* a text that is empty or only blanks
Blank(s) == s \in {"", "  "}

\* C15: _merge_reviews returns, without raising, the Google reviews with
\* source 'google' followed by the OpenTable reviews with source
\* 'opentable'; no entry has another source and none has an empty or
\* whitespace-only text.
C15_MergedReviewsGoogleThenOpenTable ==
    fn = "_merge_reviews" =>
        /\ ret.exc = "none"
        /\ \A i \in 1..Len(ret.val) :
              /\ ret.val[i].source \in {"google", "opentable"}
              /\ ~Blank(ret.val[i].text)
        /\ \A i, j \in 1..Len(ret.val) :
              (i < j /\ ret.val[i].source = "opentable") => ret.val[j].source = "opentable"
        /\ Cardinality({i \in 1..Len(ret.val) : ret.val[i].source = "google"})
              = (IF IsNanValue(arg.a) THEN 0 ELSE Len(ParseReviews(arg.a, numpyStrict).val))

\* the coordinate a source value stands for: the number when it is one,
\* null otherwise
CoordinateOf(v) ==
    IF v # Absent /\ v.t = "int" THEN v
    ELSE IF v = PyStr("40.7") THEN PyInt(40)
    ELSE PyNone

\* C16: for a venue whose other sources are in order, every OSM lat/lon
\* value leaves the venue processed; the coordinate is the number when the
\* value is present and numeric, zero included, and null otherwise.
C16_CoordinateFloatOrNull ==
    (/\ fn = "data_integration._process_single_venue"
     /\ arg.google_reviews = Absent
     /\ arg.opentable_reviews = Absent) =>
        /\ ret.val # PyNone
        /\ ret.val.lat = CoordinateOf(arg.lat)
        /\ ret.val.lon = CoordinateOf(arg.lon)

-----------------------------------------------------------------------------
(* Claims about the sources of process_data *)

\* a source table that is absent or has no row for the venues
Missing(df) == df \in {"absent", "nomatch"}

\* C17: when every source is absent, without a matching row, or matched (no
\* table lacks its key column), process_data of data_integration/ does not
\* stop before its output is written, and a missing source contributes an
\* empty record to every venue.
C17_MissingSourcesTolerated ==
    (impl = "data_integration" /\ google_df # "nokey" /\ osm_df # "nokey") =>
        /\ pc \notin {"aborted", "load_failed"}
        /\ \A i \in 1..Len(base_df) :
              /\ Missing(google_df) =>
                    GetMatchingRecord(google_df, base_df[i].greviews) = Ok(Absent)
              /\ Missing(osm_df) => GetMatchingRecord(osm_df, base_df[i].lat) = Ok(Absent)

-----------------------------------------------------------------------------
(* Claims about clean_processed_data *)

RepresentedAs(entry) ==
    IF IsFullReview(entry) THEN entry ELSE Review(StrOf(entry), "unknown")

EmptyMapping(v) == v = EmptyDict \/ v = PyMap(<<>>)

\* C19: after clean_processed_data of a list of venue mappings, every
\* non-null entry of a venue's input review list is in the output list,
\* as it is or as {text: str(entry), source: 'unknown'}, every output entry
\* has both keys, and metadata, hours and location that were not mappings
\* are empty mappings.
C19_ReviewsKeptAndStructsNormalised ==
    (/\ fn = "clean_processed_data"
     /\ \A i \in 1..Len(arg.data) : arg.data[i].t = "map") =>
        \A i \in 1..Len(arg.data) :
            LET before == arg.data[i].kv
                after == ret.val[i].kv
            IN  /\ before.reviews.t = "list" =>
                      /\ "reviews" \in DOMAIN after
                      /\ \A j \in 1..Len(before.reviews.items) :
                            ~IsNaScalar(before.reviews.items[j]) =>
                                \E k \in 1..Len(after.reviews.items) :
                                    after.reviews.items[k] = RepresentedAs(before.reviews.items[j])
                /\ "reviews" \in DOMAIN after =>
                      \A k \in 1..Len(after.reviews.items) : IsFullReview(after.reviews.items[k])
                /\ \A f \in {"metadata", "hours", "location"} :
                      ~IsMapping(before[f]) => (f \in DOMAIN after /\ EmptyMapping(after[f]))

-----------------------------------------------------------------------------
(* extract_location_from_query, applied to queries drawn at Init *)

MaxQueryLen == 3

QueryVocabulary ==
    {"pizza", "Best", "in", "great", "soho", "SoHo", "Brooklyn", "midtown", "east",
     "central", "park", "tonight", "bottomless"}

\* the GPE entities spaCy may report for a query: none, or one of its
\* capitalised words
EntityChoices(words) ==
    {<<>>} \cup {<<words[i]>> : i \in {j \in 1..Len(words) : Lower(words[j]) # words[j]}}

LocateInputs ==
    {[t |-> "query", words |-> ws, ents |-> es] :
        ws \in SeqsUpTo(QueryVocabulary, MaxQueryLen)
                  \cup {<<"cozy", "coffee", "shop", "in", "Brooklyn">>},
        es \in {<<>>} \cup {<<w>> : w \in {"Best", "SoHo", "Brooklyn"}}}

InitLocate ==
    /\ fn = "idle"
    /\ arg \in {a \in LocateInputs : a.ents \in EntityChoices(a.words)}
    /\ ret = Pending
    /\ numpyStrict = FALSE
    /\ PipeIdle
    /\ StoreIdle

CallExtractLocation ==
    /\ fn = "idle"
    /\ arg.t = "query"
    /\ fn' = "extract_location_from_query"
    /\ ret' = Ok(ExtractLocation(arg.words, arg.ents))
    /\ UNCHANGED <<arg, numpyStrict, pipeVars, storeVars>>

NextLocate == CallExtractLocation

SpecLocate == InitLocate /\ [][NextLocate]_vars

\* the query without the span that starts at word i
WithoutSpanAt(words, span, i) ==
    SubSeq(words, 1, i - 1) \o SubSeq(words, i + Len(span), Len(words))

\* the query without every occurrence of the span, whatever its case
RECURSIVE WithoutEvery(_, _)
WithoutEvery(words, span) ==
    IF words = <<>> THEN <<>>
    ELSE IF 1 \in FoundAt(span, LowerWords(words))
    THEN WithoutEvery(SubSeq(words, Len(span) + 1, Len(words)), span)
    ELSE <<words[1]>> \o WithoutEvery(Tail(words), span)

\* C20: when a location is found, the neighborhood returned is the canonical
\* name of the matched alias, and the query returned is the input query
\* without the matched span (the alias, with its preposition when a pattern
\* matched), every other word as it was typed.
C20_MatchedSpanRemoved ==
    (fn = "extract_location_from_query" /\ ret.val.stage # "none") =>
        LET span == (IF ret.val.prep = "" THEN <<>> ELSE <<ret.val.prep>>) \o ret.val.alias
        IN  /\ \E n \in 1..Len(NEIGHBORHOOD_MAPPING) :
                  /\ NEIGHBORHOOD_MAPPING[n].key = ret.val.alias
                  /\ ret.val.location = PyStr(NEIGHBORHOOD_MAPPING[n].name)
            /\ \/ \E i \in FoundAt(span, LowerWords(arg.words)) :
                      ret.val.query = WithoutSpanAt(arg.words, span, i)
               \/ /\ FoundAt(span, LowerWords(arg.words)) # {}
                  /\ ret.val.query = WithoutEvery(arg.words, span)

-----------------------------------------------------------------------------
(* extract_location_from_query: queries without a location *)

\* the canonical names of the alias table
CanonicalNames == {NEIGHBORHOOD_MAPPING[n].name : n \in 1..Len(NEIGHBORHOOD_MAPPING)}

\* an alias or a landmark occurs in the query: its letters are in the
\* lower-cased text
AliasOccurs(words) ==
    \/ FirstKeyIn(LowerWords(words)) # 0
    \/ \E l \in 1..Len(landmark_prefixes) : KeyIn(landmark_prefixes[l], LowerWords(words))

\* C21: a query in which no alias and no landmark occurs comes back as it was
\* typed, with a null location; and a location that is returned is one of
\* the canonical names of the alias table.
C21_NoAliasQueryUnchanged ==
    fn = "extract_location_from_query" =>
        /\ ~AliasOccurs(arg.words) =>
              (ret.val.query = arg.words /\ ret.val.location = PyNone)
        /\ ret.val.location # PyNone =>
              (ret.val.location.t = "str" /\ ret.val.location.s \in CanonicalNames)

\* a query of several words, one of them capitalised, without any alias
C21_PlainQueryReturned ==
    /\ fn = "extract_location_from_query"
    /\ ~AliasOccurs(arg.words)
    /\ Len(arg.words) > 1
    /\ LowerWords(arg.words) # arg.words
    /\ ret.val.location = PyNone

-----------------------------------------------------------------------------
(* validate_text and prepare_text_for_embedding, applied to descriptions    *)
(* and venues drawn at Init                                                 *)

MaxPieces == 3

DescriptionPieces ==
    {"N/A", "none", "Unknown", "unknown", "n/a", "nonetheless", "not", " ", "available",
     "cozy", "wine bar", "great food", Filler}

\* what the description column may hold: strings, and values that are not
\* strings
DescriptionValues ==
    {PyChars(cs) : cs \in SeqsUpTo(DescriptionPieces, MaxPieces)}
    \cup {PyNone, PyInt(0), PyInt(7), PyList(<<>>), PyList(<<PyStr("good")>>)}

\* the descriptions of the venues that are composed
VenueDescriptions ==
    {PyNone, PyChars(<<"N/A">>), PyChars(<<"cozy", " ", "wine bar">>),
     PyChars(<<"Unknown", " ", "wine bar">>), PyChars(<<Filler, "unknown", "n/a">>)}

Resy(why_we_like_it, about, need_to_know) ==
    [t |-> "resy", why_we_like_it |-> why_we_like_it, about |-> about,
     need_to_know |-> need_to_know]

\* the reviews of a venue, by their lengths: none, one, a long one first, and
\* six of which the last is long
VenueReviews ==
    {[i \in 1..Len(lens) |-> Text(lens[i], FALSE, i)] :
        lens \in {<<>>, <<60>>, <<400, 20>>, <<10, 10, 10, 10, 10, 350>>}}

VenueRowsToCompose ==
    {[id |-> 1, corner_place_id |-> "c1", name |-> Text(5, FALSE, 1),
      neighborhood |-> hood, price_range |-> price, address |-> address, hours |-> hours,
      combined_description |-> description, tags |-> tags, resy_data |-> resy] :
        hood \in {PyNone, PyStr("SoHo")},
        price \in {PyNone, PyChars(<<"$", "$">>)},
        address \in {PyNone, Text(12, FALSE, 1)},
        hours \in {PyNone, ClosedMonday, HoursNote},
        description \in VenueDescriptions,
        tags \in {PyNone, TagList(<<4, 6>>, 1)},
        resy \in {EmptyResy, Resy(20, 0, 30)}}

ContentInputs ==
    {[t |-> "description", value |-> v] : v \in DescriptionValues}
    \cup {[t |-> "venue", place |-> p, reviews |-> revs] :
             p \in VenueRowsToCompose, revs \in VenueReviews}

InitContent ==
    /\ fn = "idle"
    /\ arg \in ContentInputs
    /\ ret = Pending
    /\ numpyStrict = FALSE
    /\ PipeIdle
    /\ StoreIdle

CallValidateText ==
    /\ fn = "idle"
    /\ arg.t = "description"
    /\ fn' = "validate_text"
    /\ ret' = Ok(ValidateTextResult(arg.value))
    /\ UNCHANGED <<arg, numpyStrict, pipeVars, storeVars>>

CallPrepareTextForEmbedding ==
    /\ fn = "idle"
    /\ arg.t = "venue"
    /\ fn' = "prepare_text_for_embedding"
    /\ ret' = PrepareTextForEmbedding(arg.place, arg.reviews)
    /\ UNCHANGED <<arg, numpyStrict, pipeVars, storeVars>>

NextContent == CallValidateText \/ CallPrepareTextForEmbedding

SpecContent == InitContent /\ [][NextContent]_vars

\* the description holds one of the low-information phrases, whatever the
\* case of its letters
HoldsLowInfoPhrase(v) ==
    \E p \in 1..Len(low_info_patterns) :
        PatternIn(low_info_patterns[p], LowerWords(v.cs))

\* the description is rejected by the rule of the spec
RejectedByRule(v) ==
    \/ v \in {PyNone, PyChars(<<>>)}
    \/ v.t # "chars"
    \/ TextLen(v) < 10
    \/ HoldsLowInfoPhrase(v) /\ TextLen(v) < 100

LabelsOf(parts) == {parts[i].label : i \in 1..Len(parts)}

\* C22: validate_text rejects a description exactly when it is empty, not a
\* string, under 10 characters, or holds a low-information phrase while under
\* 100 characters; a string of 100 characters or more is accepted; and a
\* rejected description is not a part of the composed content.
C22_ValidateTextRule ==
    /\ fn = "validate_text" =>
          /\ ret.val.valid = ~RejectedByRule(arg.value)
          /\ (arg.value.t = "chars" /\ TextLen(arg.value) >= 100) => ret.val.valid
    /\ (fn = "prepare_text_for_embedding" /\ ret.exc = "none" /\ ret.val # PyNone) =>
          (RejectedByRule(arg.place.combined_description)
              => "Description" \notin LabelsOf(ret.val.parts))

\* a description of 100 characters that holds two of the phrases is accepted
C22_LongTextWithPhraseAccepted ==
    /\ fn = "validate_text"
    /\ arg.value.t = "chars"
    /\ TextLen(arg.value) = 100
    /\ HoldsLowInfoPhrase(arg.value)
    /\ ret.val.valid

\* the labels of the parts in the order of the spec
PartOrder ==
    <<"Name", "Neighborhood", "Price Range", "Price Category", "Address", "Hours",
      "Hours Info", "Description", "Tags", "From Resy", "Reviews">>

Rank(label) == CHOOSE i \in 1..Len(PartOrder) : PartOrder[i] = label

\* the field a part is built from is present in the venue
FieldPresent(label, place, revs) ==
    CASE label = "Name" -> place.name # PyNone
      [] label = "Neighborhood" -> Truthy(place.neighborhood)
      [] label \in {"Price Range", "Price Category"} -> Truthy(place.price_range)
      [] label = "Address" -> place.address # PyNone
      [] label \in {"Hours", "Hours Info"} -> place.hours # PyNone
      [] label = "Description" -> ~RejectedByRule(place.combined_description)
      [] label = "Tags" -> place.tags # PyNone
      [] label = "From Resy" -> FetchResyData(place) # EmptyResy
      [] label = "Reviews" -> revs # <<>>

\* the parts are in the fixed order, each from a field that is present, and
\* the reviews part holds the first reviews, five at most, cut at 300
PartsAsSpecified(parts, place, revs) ==
    /\ \A i, j \in 1..Len(parts) : i < j => Rank(parts[i].label) < Rank(parts[j].label)
    /\ \A i \in 1..Len(parts) :
          /\ parts[i].label \in {PartOrder[k] : k \in 1..Len(PartOrder)}
          /\ FieldPresent(parts[i].label, place, revs)
          /\ parts[i].label = "Reviews" =>
                /\ Len(parts[i].lines) <= 5
                /\ Len(parts[i].lines) <= Len(revs)
                /\ \A k \in 1..Len(parts[i].lines) :
                      /\ parts[i].lines[k].of = k
                      /\ parts[i].lines[k].len <= 300
                      /\ parts[i].lines[k].len <= revs[k].len
                      /\ revs[k].len <= 300 => parts[i].lines[k].len = revs[k].len

\* C23: for every venue prepare_text_for_embedding builds its text from the
\* parts name, neighborhood, price (original, then tier), address, hours
\* (per-day text, then summary), validated description, tags, Resy notes and
\* reviews, in this order, each part only when its field is present; the
\* reviews part holds at most the first 5 reviews, each cut at 300 characters.
C23_PartsInFixedOrder ==
    fn = "prepare_text_for_embedding" =>
        /\ ret.exc = "none"
        /\ ret.val # PyNone => PartsAsSpecified(ret.val.parts, arg.place, arg.reviews)

-----------------------------------------------------------------------------
(* process_all_places when the store cannot be reached *)

\* what may go wrong in fetch_places_needing_embeddings: psycopg2.connect
\* raises in _connect_db, or the connection opens and a SELECT raises
FetchFaults == {"connect", "query"}

FetchFailed(fault) == [t |-> "fetch failed", fault |-> fault]

\* process_all_places when the fetch fails: _connect_db is called before the
\* try of the fetch (line 284), so its error reaches the handler of
\* process_all_places, which logs and returns 0 (lines 747-751); an error of
\* a SELECT is caught in the fetch, which returns three empty results (lines
\* 350-353), and process_all_places logs that no place needs an embedding and
\* returns (lines 667-669)
ProcessAllPlacesFetchFails(fault) ==
    /\ bpc \in {"idle", "returned"}
    /\ gpc = "idle"
    /\ n_runs < MaxRuns
    /\ n_runs' = n_runs + 1
    /\ new_places' = <<>>
    /\ updated_places' = <<>>
    /\ place_reviews' = <<>>
    /\ last_fetch' = FetchFailed(fault)
    /\ bpc' = "returned"
    /\ batch_ret' = IF fault = "connect" THEN PyInt(0) ELSE PyNone
    /\ run_log' = {LogEntry(0, IF fault = "connect" THEN "Error processing places"
                                ELSE "No places need embeddings")}
    /\ processed' = 0
    /\ content' = PyNone
    /\ UNCHANGED <<dbVars, genVars, pureVars, numpyStrict, pipeVars, searchVars>>

NextFatal ==
    \/ NextStore
    \/ \E fault \in FetchFaults : ProcessAllPlacesFetchFails(fault)

SpecFatal == InitStore /\ [][NextFatal]_vars

\* C24: a run of the batch that cannot open the store connection, or cannot
\* read its input table, ends with the error raised to its caller; it never
\* ends as a completed run that reports no work or returns a token count.
C24_FatalFailureAbortsRun ==
    (bpc = "returned" /\ last_fetch.t = "fetch failed") =>
        (batch_ret.t = "raised" /\ batch_ret # PyNone /\ batch_ret.t # "int")

-----------------------------------------------------------------------------
(* _merge_reviews and _process_single_venue with the raw records kept as    *)
(* objects: arg holds the two reviews values as they are now, and in passed *)
(* their content when the call was made                                    *)

\* the list handed to _merge_reviews after its half of the call: when the
\* list holds {text, source} structs only, _parse_reviews returns those same
\* dicts (lines 32-34) and review['source'] = src assigns into them (lines
\* 75-77, 84-86); every other branch builds new dicts
AfterTagging(value, src, strict) ==
    IF IsNanValue(value) \/ ParseReviews(value, strict).exc # "none" THEN value
    ELSE IF /\ value.t = "list"
            /\ ~BoolIsNa(value, strict).val
            /\ \A i \in 1..Len(value.items) :
                  Truthy(value.items[i]) => IsFullReview(value.items[i])
    THEN PyList([i \in 1..Len(value.items) |->
                    IF Truthy(value.items[i])
                    THEN PyDict(value.items[i].has, value.items[i].text, src)
                    ELSE value.items[i]])
    ELSE value

\* the two values after _merge_reviews of data_integration/: the OpenTable
\* half is not reached when the Google half raised
AfterMergeReviews(google_reviews, opentable_reviews, strict) ==
    [google_reviews |-> AfterTagging(google_reviews, "google", strict),
     opentable_reviews |->
         IF TaggedReviews(google_reviews, "google", strict).exc # "none"
         THEN opentable_reviews
         ELSE AfterTagging(opentable_reviews, "opentable", strict)]

RawRecords ==
    {[t |-> "records", google_reviews |-> v[1], opentable_reviews |-> v[2],
      passed |-> [google_reviews |-> v[1], opentable_reviews |-> v[2]]] :
        v \in (MergeValues \ {Absent}) \X (MergeValues \ {Absent})}

InitFrame ==
    /\ fn = "idle"
    /\ arg \in RawRecords
    /\ ret = Pending
    /\ numpyStrict \in BOOLEAN
    /\ PipeIdle
    /\ StoreIdle

\* _merge_reviews(google_reviews, opentable_reviews) of data_integration/
CallMergeReviewsOnRecords ==
    /\ fn = "idle"
    /\ fn' = "_merge_reviews"
    /\ ret' = MergeReviews(arg.google_reviews, arg.opentable_reviews, numpyStrict)
    /\ LET after == AfterMergeReviews(arg.google_reviews, arg.opentable_reviews,
                                      numpyStrict)
       IN  arg' = [arg EXCEPT !.google_reviews = after.google_reviews,
                              !.opentable_reviews = after.opentable_reviews]
    /\ UNCHANGED <<numpyStrict, pipeVars, storeVars>>

\* _process_single_venue on a venue with these reviews: google_data.get(
\* 'reviews', []) hands the list of the record to _merge_reviews; the
\* _merge_reviews of assembling_pipeline.py builds new dicts only
CallProcessSingleVenueOnRecords(which) ==
    /\ fn = "idle"
    /\ fn' = which \o "._process_single_venue"
    /\ ret' = Ok(ReconcileVenue(which,
                                [PlainSources EXCEPT
                                    !.google_reviews = arg.google_reviews,
                                    !.opentable_reviews = arg.opentable_reviews],
                                numpyStrict))
    /\ LET after == AfterMergeReviews(arg.google_reviews, arg.opentable_reviews,
                                      numpyStrict)
       IN  arg' = IF which = "data_integration"
                  THEN [arg EXCEPT !.google_reviews = after.google_reviews,
                                   !.opentable_reviews = after.opentable_reviews]
                  ELSE arg
    /\ UNCHANGED <<numpyStrict, pipeVars, storeVars>>

NextFrame ==
    \/ CallMergeReviewsOnRecords
    \/ \E which \in Implementations : CallProcessSingleVenueOnRecords(which)

SpecFrame == InitFrame /\ [][NextFrame]_vars

\* C25: the raw source records are read-only for the reconciliation: when
\* _merge_reviews or _process_single_venue has returned, each reviews value
\* that was passed in, a list of {text, source} structs included, has the
\* content it had before the call.
C25_RawRecordsUnchanged ==
    (fn # "idle" /\ ret.exc = "none") =>
        /\ arg.google_reviews = arg.passed.google_reviews
        /\ arg.opentable_reviews = arg.passed.opentable_reviews

-----------------------------------------------------------------------------
(* store_embedding called one call after another, for stored and unknown    *)
(* places and two content types                                            *)

MaxStoreCalls == 4

ContentTypes == {"combined", "reviews"}

StoredVectors == {[t |-> "vec", of |-> 60], [t |-> "vec", of |-> 70]}

\* store_embedding(place_id, embedding, content_type); ok is false when a
\* statement raises, as the INSERT does for a place_id that is not in places
\* (place_id REFERENCES places(id)): the handler rolls back and returns False
CallStoreEmbeddingAs(place_id, embedding, content_type, ok) ==
    /\ now < MaxStoreCalls
    /\ LET ts == now + 1
           known == \E p \in places : p.id = place_id
           tried == StoreEmbeddingAs(embeddings, place_id, embedding, content_type,
                                     has_pgvector, emb_seq + 1, ts)
           stored == IF ok /\ known THEN tried
                     ELSE [rows |-> embeddings, success |-> FALSE]
       IN  /\ embeddings' = stored.rows
           /\ emb_seq' = IF Cardinality(tried.rows) > Cardinality(embeddings)
                         THEN emb_seq + 1 ELSE emb_seq
           /\ now' = ts
           /\ fresh' = IF stored.success THEN fresh \cup {place_id} ELSE fresh
           /\ store_ret' = PyBool(stored.success)
           /\ fn' = "store_embedding"
           /\ arg' = [place_id |-> place_id, embedding |-> embedding,
                      content_type |-> content_type, at |-> ts, before |-> embeddings]
           /\ ret' = Ok(stored.success)
    /\ UNCHANGED <<places, review_rows, place_seq, review_seq, has_pgvector, n_saves,
                   last_save, saved_cids>>
    /\ UNCHANGED <<batchVars, genVars, numpyStrict, pipeVars, searchVars>>

InitEmbed ==
    /\ fn = "idle"
    /\ arg = PyNone
    /\ ret = Pending
    /\ numpyStrict = FALSE
    /\ PipeIdle
    /\ StoreIdleDb /\ BatchIdle /\ GenIdle /\ SearchIdle
    /\ has_pgvector \in BOOLEAN

NextEmbed ==
    \/ \E inp \in NoVectorSaves : SaveToDb(inp[1], inp[2], inp[3], inp[4])
    \/ \E place_id \in 1..MaxSaves, v \in StoredVectors, ct \in ContentTypes, ok \in BOOLEAN :
          CallStoreEmbeddingAs(place_id, v, ct, ok)

SpecEmbed == InitEmbed /\ [][NextEmbed]_vars

RowsOfPair(es, place_id, content_type) ==
    {e \in es : e.place_id = place_id /\ e.content_type = content_type}

\* C26: after any sequence of store_embedding calls the embeddings table has
\* at most one row per (place_id, content_type); a call that succeeded for a
\* pair with a row changed the vector and last_updated of that row and
\* nothing else, and one for a new pair added exactly one row.
C26_OneEmbeddingPerPair ==
    /\ \A e1, e2 \in embeddings :
          (e1.place_id = e2.place_id /\ e1.content_type = e2.content_type) => e1 = e2
    /\ (fn = "store_embedding" /\ ret.val) =>
          LET was == RowsOfPair(arg.before, arg.place_id, arg.content_type)
              is == RowsOfPair(embeddings, arg.place_id, arg.content_type)
          IN  /\ embeddings \ is = arg.before \ was
              /\ Cardinality(is) = 1
              /\ \A e \in is : e.embedding = arg.embedding /\ e.last_updated = arg.at
              /\ was # {} => {e.id : e \in is} = {e.id : e \in was}
              /\ was = {} => \A e \in is : e.id \notin {b.id : b \in arg.before}
    /\ (fn = "store_embedding" /\ ~ret.val) => embeddings = arg.before

\* a pair is stored a second time, with another vector, beside another pair
C26_PairStoredTwice ==
    /\ fn = "store_embedding"
    /\ ret.val
    /\ \E e \in RowsOfPair(arg.before, arg.place_id, arg.content_type) :
          e.embedding # arg.embedding
    /\ Cardinality(embeddings) >= 2

-----------------------------------------------------------------------------
(* The module-level tables under calls of extract_location_from_query,      *)
(* get_adjacent_neighborhoods and search_places_with_location               *)

NeighborhoodNames == {"SoHo", "Harlem"}

\* extract_location_from_query(query) called on its own: the table is read
\* with .items() and in
CallExtractLocationFromQuery(q) ==
    /\ spc \in {"idle", "returned"}
    /\ fn' = "extract_location_from_query"
    /\ arg' = PyStr(q)
    /\ ret' = Ok(ExtractLocationFromQuery(q))
    /\ UNCHANGED <<numpyStrict, pipeVars, storeVars>>

\* get_adjacent_neighborhoods(neighborhood): the list of the table, or a new
\* empty list
CallGetAdjacentNeighborhoods(name) ==
    /\ spc \in {"idle", "returned"}
    /\ fn' = "get_adjacent_neighborhoods"
    /\ arg' = PyStr(name)
    /\ ret' = Ok(GetAdjacentNeighborhoods(name))
    /\ UNCHANGED <<numpyStrict, pipeVars, storeVars>>

NextTables ==
    \/ \E q \in Queries : CallExtractLocationFromQuery(q)
    \/ \E name \in NeighborhoodNames : CallGetAdjacentNeighborhoods(name)
    \/ \E q \in Queries : SearchStart(q, PyNone, MaxLimit)
    \/ GenServiceOk
    \/ GenServiceFail
    \/ GenSleepDone
    \/ GenExhausted
    \/ SearchPrimary
    \/ SearchAdjacent
    \/ SearchUnfiltered
    \/ SearchReturn

SpecTables == InitSearch /\ [][NextTables]_vars

\* C27: NEIGHBORHOOD_MAPPING and ADJACENT_NEIGHBORHOODS are not changed at
\* runtime: after any sequence of extract_location_from_query,
\* get_adjacent_neighborhoods and search_places_with_location calls both
\* tables have the content they had at startup.
C27_TablesNeverChanged ==
    /\ tables.NEIGHBORHOOD_MAPPING = NEIGHBORHOOD_MAPPING
    /\ tables.ADJACENT_NEIGHBORHOODS = ADJACENT_NEIGHBORHOODS

\* a search that queried the neighborhoods adjacent to SoHo has returned and
\* the list of SoHo has been handed out
C27_AdjacentSearchedAndReturned ==
    /\ spc = "returned"
    /\ search_log.t = "search"
    /\ search_log.adjacent.bound
    /\ fn = "get_adjacent_neighborhoods"
    /\ arg = PyStr("SoHo")
    /\ ret.val = tables.ADJACENT_NEIGHBORHOODS["SoHo"]


-----------------------------------------------------------------------------
(* save_to_db as one transaction *)

\* the review rows the last save_to_db call added
ReviewsOfCall == review_rows \ last_save.reviews_before

\* what a save_to_db call leaves when it returns or raises
SaveOutcome ==
    /\ last_save.raised = ReviewDataRaises(last_save.place_data.reviews)
    /\ last_save.raised =>
          /\ places = last_save.places_before
          /\ review_rows = last_save.reviews_before
    /\ ~last_save.raised =>
          /\ \E r \in places :
                /\ r.corner_place_id = last_save.place_data.corner_place_id
                /\ \A c \in MutableColumns :
                      r[c] = InsertValues(last_save.place_data)[c]
          /\ Cardinality(ReviewsOfCall) = Len(last_save.place_data.reviews)
          /\ \A r \in ReviewsOfCall :
                /\ r.place_id = SavedRow.id
                /\ \E i \in 1..Len(last_save.place_data.reviews) :
                      r.review_text = last_save.place_data.reviews[i].review_text

\* C28: save_to_db is one transaction per venue: a call that commits has stored
\* the venue row and one review row for each review of the call, all of them
\* rows of that venue; a call in which a step raises leaves the places table
\* and the reviews table as they were before the call, and the call raises.
C28_SaveIsOneTransaction == [][n_saves' # n_saves => SaveOutcome']_vars

\* a call that raised while building its review rows, after its upsert had
\* rewritten the stored row of the venue with other values
C28_RaisedAfterUpsert ==
    /\ last_save # NoSave
    /\ last_save.raised
    /\ Len(last_save.place_data.reviews) = 2
    /\ \E old \in RowsBefore : old.name # last_save.place_data.name


-----------------------------------------------------------------------------
(* The status recorded on the venues of a run of process_all_places *)

\* the steps of an iteration that call update_embedding_status
StatusSteps == {"no content", "stored", "not stored", "not generated"}

\* the update_embedding_status calls of the run for a venue
StatusUpdates(place_id) == {e \in run_log : e.place_id = place_id /\ e.what \in StatusSteps}

IsNewPlace(place_id) == \E i \in 1..Len(new_places) : new_places[i].id = place_id

\* the status agrees with what the run did for the venue
StatusAgrees(place_id) ==
    LET st == StatusOf(place_id)
    IN  /\ st # PyNone
        /\ st.status \in {"success", "updated", "failed"}
        /\ st.status \in {"success", "updated"} =>
              /\ Logged(place_id, "generate")
              /\ Logged(place_id, "stored")
              /\ st.status = (IF IsNewPlace(place_id) THEN "success" ELSE "updated")
              /\ \E e \in embeddings : e.place_id = place_id
        /\ st.status = "failed" =>
              \/ /\ Logged(place_id, "no content")
                 /\ st.message = "No valid content for embedding"
              \/ /\ Logged(place_id, "not generated")
                 /\ st.message = "Failed to generate embedding"
              \/ /\ Logged(place_id, "not stored")
                 /\ st.message \in {"Failed to store embedding", "Failed to update embedding"}

\* C29: when a run of process_all_places is over, every venue the fetch
\* returned has had exactly one status update in the run, and its status agrees
\* with what happened: success (new venue) or updated (stale venue) only when a
\* vector was generated and stored for it in the run, failed with the reason
\* when the content was rejected, no vector was generated or the store failed.
C29_OneStatusPerFetchedVenue ==
    (bpc = "returned" /\ last_fetch # NoFetch) =>
        \A p \in FetchedRows :
            /\ Cardinality(StatusUpdates(p.id)) = 1
            /\ StatusAgrees(p.id)


-----------------------------------------------------------------------------
(* The counters of process_data of assembling_pipeline.py *)

\* the rows of the base table the loop has handled
Handled == 1..(idx - 1)

\* C30: in process_data of assembling_pipeline.py, after each venue of the
\* loop has been handled, total_processed = successful + errors and successful
\* is the number of venues of the output list; when the run is complete
\* total_processed is the number of rows of the base table, each row counted
\* once, as succeeded or as failed.
C30_CountersAddUp ==
    (impl = "root" /\ pc \in {"loop", "done"}) =>
        /\ stats.total_processed = stats.successful + stats.errors
        /\ stats.successful = Len(processed_venues)
        /\ stats.total_processed = Cardinality(Handled)
        /\ stats.successful = Cardinality({i \in Handled : ~ReconcileRaises(i)})
        /\ stats.errors = Cardinality({i \in Handled : ReconcileRaises(i)})
        /\ pc = "done" => stats.total_processed = Len(base_df)

\* a complete run that counted one venue as succeeded and one as failed
C30_RunWithBothOutcomes ==
    /\ impl = "root"
    /\ pc = "done"
    /\ stats.successful >= 1
    /\ stats.errors >= 1
    /\ Len(output_file) = stats.successful

=============================================================================
